---------------------------- MODULE Spec2Model ----------------------------
(***************************************************************************)
(* Warehouse inventory monitor: the snapshot store, the inventory differ   *)
(* (InventoryMonitor.compare_inventory), the scraper's row normalisation   *)
(* and the monitoring cycle (check_inventory_once).                        *)
(***************************************************************************)
EXTENDS Integers, Sequences, FiniteSets, TLC

(***************************************************************************)
(* Bounds of the model.                                                    *)
(***************************************************************************)
\* longest listing handed to compare_inventory in SpecDiff
MaxLen == 2
\* largest quantity of an item in SpecDiff
MaxQty == 1
\* clock value after which no further monitoring cycle starts
MaxClock == 3
\* clock ticks per day: the clock counts half days from 2024-01-01 00:00
DayTicks == 2

(***************************************************************************)
(* Text.  A product name is a sequence of characters, so that str.strip()  *)
(* is computed and not assumed.                                            *)
(***************************************************************************)
Whitespace == {" "}

RECURSIVE LStrip(_)
LStrip(s) ==
    IF s # <<>> /\ Head(s) \in Whitespace THEN LStrip(Tail(s)) ELSE s

RECURSIVE RStrip(_)
RStrip(s) ==
    IF s # <<>> /\ s[Len(s)] \in Whitespace
    THEN RStrip(SubSeq(s, 1, Len(s) - 1))
    ELSE s

\* str.strip()
Strip(s) == RStrip(LStrip(s))

(***************************************************************************)
(* Sequences helpers (list comprehensions of the source).                  *)
(***************************************************************************)
RECURSIVE SelectType(_, _)
\* [c for c in changes if c.get('type') == t]
SelectType(cs, t) ==
    IF cs = <<>> THEN <<>>
    ELSE IF Head(cs).type = t
         THEN <<Head(cs)>> \o SelectType(Tail(cs), t)
         ELSE SelectType(Tail(cs), t)

Range(s) == {s[i] : i \in 1..Len(s)}

\* all sequences over S of length at most n
SeqsUpTo(S, n) == UNION {[1..k -> S] : k \in 0..n}

(***************************************************************************)
(* The scraper: one row of the page becomes one item of the listing.       *)
(***************************************************************************)
\* ScrapeRow without the strip() of the product text
ScrapeRowRaw(row, t) ==
    [product     |-> row.product,
     quantity    |-> row.quantity,
     expiry_date |-> row.expiry_date,
     scraped_at  |-> t]

\* WebScraper._scrape_with_selenium / _scrape_with_requests, one row: the
\* product text is stripped; quantity and expiry are the parsed values.
ScrapeRow(row, t) ==
    [product     |-> Strip(row.product),
     quantity    |-> row.quantity,
     expiry_date |-> row.expiry_date,
     scraped_at  |-> t]

\* WebScraper.scrape_inventory: every row of the page, in page order
scrape_inventory(page, t) == [i \in 1..Len(page) |-> ScrapeRow(page[i], t)]

(***************************************************************************)
(* Python dicts: insertion ordered, a repeated key keeps its first         *)
(* position and takes the last value.                                      *)
(***************************************************************************)
RECURSIVE DictPutFirst(_, _)
\* DictPut keeping the first value of a repeated key
DictPutFirst(d, item) ==
    IF d = <<>> THEN <<item>>
    ELSE IF Head(d).product = item.product
         THEN d
         ELSE <<Head(d)>> \o DictPutFirst(Tail(d), item)

RECURSIVE DictPut(_, _)
\* d[item['product']] = item
DictPut(d, item) ==
    IF d = <<>> THEN <<item>>
    ELSE IF Head(d).product = item.product
         THEN <<item>> \o Tail(d)
         ELSE <<Head(d)>> \o DictPut(Tail(d), item)

RECURSIVE ToDict(_)
\* {item['product']: item for item in listing}
ToDict(listing) ==
    IF listing = <<>> THEN <<>>
    ELSE DictPut(ToDict(SubSeq(listing, 1, Len(listing) - 1)),
                 listing[Len(listing)])

\* the keys of a dict
Keys(d) == {d[i].product : i \in 1..Len(d)}

\* d[k], for k in Keys(d)
DictGet(d, k) == (CHOOSE i \in 1..Len(d) : d[i].product = k)

Abs(n) == IF n < 0 THEN -n ELSE n

(***************************************************************************)
(* The snapshot store: a mapping of keys to values, as a function whose    *)
(* domain is the set of keys present.                                      *)
(***************************************************************************)
EmptyStore == [k \in {} |-> <<>>]

\* self.history.get(key, [])
HistoryGet(h, key) == IF key \in DOMAIN h THEN h[key] ELSE <<>>

\* history[key] = inventory; history[key + '_timestamp'] = now
HistoryPut(h, inventory, t) ==
    [k \in (DOMAIN h) \cup {"latest", "latest_timestamp"} |->
        IF k = "latest" THEN inventory
        ELSE IF k = "latest_timestamp" THEN t
        ELSE h[k]]


(***************************************************************************)
(* The inventory differ.                                                   *)
(***************************************************************************)
\* ChangeInfo typing a zero difference as a shipment
ChangeInfoLe(current_item, prev_item, t) ==
    LET quantity_diff == current_item.quantity - prev_item.quantity
        change_info ==
            [product           |-> current_item.product,
             previous_quantity |-> prev_item.quantity,
             current_quantity  |-> current_item.quantity,
             quantity_diff     |-> quantity_diff,
             previous_expiry   |-> prev_item.expiry_date,
             current_expiry    |-> current_item.expiry_date,
             expiry_changed    |->
                 current_item.expiry_date # prev_item.expiry_date,
             timestamp         |-> t]
    IN  IF quantity_diff <= 0
        THEN [k \in (DOMAIN change_info) \cup {"type", "shipped_quantity"} |->
                 IF k = "type" THEN "shipment"
                 ELSE IF k = "shipped_quantity" THEN Abs(quantity_diff)
                 ELSE change_info[k]]
        ELSE [k \in (DOMAIN change_info) \cup {"type"} |->
                 IF k = "type" THEN "increase" ELSE change_info[k]]

\* ChangeInfo subtracting the wrong way round
ChangeInfoSwapped(current_item, prev_item, t) ==
    LET quantity_diff == prev_item.quantity - current_item.quantity
        change_info ==
            [product           |-> current_item.product,
             previous_quantity |-> prev_item.quantity,
             current_quantity  |-> current_item.quantity,
             quantity_diff     |-> quantity_diff,
             previous_expiry   |-> prev_item.expiry_date,
             current_expiry    |-> current_item.expiry_date,
             expiry_changed    |->
                 current_item.expiry_date # prev_item.expiry_date,
             timestamp         |-> t]
    IN  IF quantity_diff < 0
        THEN [k \in (DOMAIN change_info) \cup {"type", "shipped_quantity"} |->
                 IF k = "type" THEN "shipment"
                 ELSE IF k = "shipped_quantity" THEN Abs(quantity_diff)
                 ELSE change_info[k]]
        ELSE [k \in (DOMAIN change_info) \cup {"type"} |->
                 IF k = "type" THEN "increase" ELSE change_info[k]]

\* the change record of one product present in both listings
ChangeInfo(current_item, prev_item, t) ==
    LET quantity_diff == current_item.quantity - prev_item.quantity
        expiry_changed == current_item.expiry_date # prev_item.expiry_date
        change_info ==
            [product           |-> current_item.product,
             previous_quantity |-> prev_item.quantity,
             current_quantity  |-> current_item.quantity,
             quantity_diff     |-> quantity_diff,
             previous_expiry   |-> prev_item.expiry_date,
             current_expiry    |-> current_item.expiry_date,
             expiry_changed    |-> expiry_changed,
             timestamp         |-> t]
    IN  IF quantity_diff < 0
        THEN [k \in (DOMAIN change_info) \cup {"type", "shipped_quantity"} |->
                 IF k = "type" THEN "shipment"
                 ELSE IF k = "shipped_quantity" THEN Abs(quantity_diff)
                 ELSE change_info[k]]
        ELSE [k \in (DOMAIN change_info) \cup {"type"} |->
                 IF k = "type" THEN "increase" ELSE change_info[k]]

\* IsChanged comparing the whole items, scraped_at included
IsChangedAnyField(current_item, prev_item) ==
    current_item # prev_item

\* IsChanged with >= in place of !=
IsChangedGe(current_item, prev_item) ==
    \/ current_item.quantity - prev_item.quantity >= 0
    \/ current_item.expiry_date # prev_item.expiry_date

\* does the pair of items give a change record
IsChanged(current_item, prev_item) ==
    \/ current_item.quantity - prev_item.quantity # 0
    \/ current_item.expiry_date # prev_item.expiry_date

RECURSIVE ChangesOf(_, _, _)
\* the first loop, `changes`: products of current_dict also in previous_dict
ChangesOf(cd, pd, t) ==
    IF cd = <<>> THEN <<>>
    ELSE LET current_item == Head(cd)
             rest == ChangesOf(Tail(cd), pd, t)
         IN  IF current_item.product \in Keys(pd)
                /\ IsChanged(current_item, pd[DictGet(pd, current_item.product)])
             THEN <<ChangeInfo(current_item,
                               pd[DictGet(pd, current_item.product)], t)>> \o rest
             ELSE rest

RECURSIVE NewOfStocked(_, _, _)
\* NewOf leaving out the products whose quantity is 0
NewOfStocked(cd, pd, t) ==
    IF cd = <<>> THEN <<>>
    ELSE LET current_item == Head(cd)
             rest == NewOfStocked(Tail(cd), pd, t)
         IN  IF current_item.product \notin Keys(pd)
                /\ current_item.quantity > 0
             THEN <<[product     |-> current_item.product,
                     quantity    |-> current_item.quantity,
                     expiry_date |-> current_item.expiry_date,
                     timestamp   |-> t]>> \o rest
             ELSE rest

RECURSIVE NewOf(_, _, _)
\* the first loop, `new_products`: products of current_dict not in previous_dict
NewOf(cd, pd, t) ==
    IF cd = <<>> THEN <<>>
    ELSE LET current_item == Head(cd)
             rest == NewOf(Tail(cd), pd, t)
         IN  IF current_item.product \notin Keys(pd)
             THEN <<[product     |-> current_item.product,
                     quantity    |-> current_item.quantity,
                     expiry_date |-> current_item.expiry_date,
                     timestamp   |-> t]>> \o rest
             ELSE rest

RECURSIVE RemovedOfSoldOut(_, _, _)
\* RemovedOf counting a product whose stock fell to 0 as removed
RemovedOfSoldOut(pd, cd, t) ==
    IF pd = <<>> THEN <<>>
    ELSE LET prev_item == Head(pd)
             rest == RemovedOfSoldOut(Tail(pd), cd, t)
         IN  IF \/ prev_item.product \notin Keys(cd)
                \/ cd[DictGet(cd, prev_item.product)].quantity = 0
             THEN <<[product           |-> prev_item.product,
                     previous_quantity |-> prev_item.quantity,
                     timestamp         |-> t]>> \o rest
             ELSE rest

RECURSIVE RemovedOf(_, _, _)
\* the second loop: products of previous_dict not in current_dict
RemovedOf(pd, cd, t) ==
    IF pd = <<>> THEN <<>>
    ELSE LET prev_item == Head(pd)
             rest == RemovedOf(Tail(pd), cd, t)
         IN  IF prev_item.product \notin Keys(cd)
             THEN <<[product           |-> prev_item.product,
                     previous_quantity |-> prev_item.quantity,
                     timestamp         |-> t]>> \o rest
             ELSE rest

\* InventoryMonitor.compare_inventory(current), against history['latest']
compare_inventory(cur, h, t) ==
    LET previous == HistoryGet(h, "latest")
        current_dict == ToDict(cur)
        previous_dict == ToDict(previous)
    IN  [changes          |-> ChangesOf(current_dict, previous_dict, t),
         new_products     |-> NewOf(current_dict, previous_dict, t),
         removed_products |-> RemovedOf(previous_dict, current_dict, t),
         timestamp        |-> t]

\* the change-set before any comparison
NoChanges ==
    [changes |-> <<>>, new_products |-> <<>>, removed_products |-> <<>>,
     timestamp |-> 0]


(***************************************************************************)
(* The expiry scanner.                                                     *)
(***************************************************************************)
\* expiry_days of check_inventory_once
ExpiryDays == 30

\* the texts datetime.strptime(text, '%Y-%m-%d') accepts, among those used
IsoDates == {"2024-01-01", "2024-01-10", "2024-06-01"}

\* the day of an accepted text, counted from 2024-01-01
DayOf(text) ==
    CASE text = "2024-01-01" -> 0
      [] text = "2024-01-10" -> 9
      [] text = "2024-06-01" -> 152

\* datetime.strptime(text, '%Y-%m-%d'), as a clock value (midnight)
strptime(text) == DayOf(text) * DayTicks

\* timedelta.days: whole days, rounded towards minus infinity
TimedeltaDays(ticks) ==
    IF ticks >= 0 THEN ticks \div DayTicks
    ELSE -((-ticks + DayTicks - 1) \div DayTicks)

\* datetime.strptime(item['expiry_date'], '%Y-%m-%d') for one item: the date
\* is parsed, the key is absent (KeyError) or the text is no date (ValueError)
ParseOutcome(item) ==
    IF "expiry_date" \notin DOMAIN item THEN "KeyError"
    ELSE IF item.expiry_date \notin IsoDates THEN "ValueError"
    ELSE "ok"

\* Caught with the clause written as `except ValueError`
CaughtValueOnly == {"ValueError"}

\* except (ValueError, KeyError): continue
Caught == {"ValueError", "KeyError"}

\* an exception of some item leaves get_expiring_soon_products
ScanRaises(inventory) ==
    \E i \in 1..Len(inventory) :
        ParseOutcome(inventory[i]) \notin Caught \cup {"ok"}

RECURSIVE Expiring(_, _, _)
\* the loop of get_expiring_soon_products: the kept items, in listing order
Expiring(inventory, days, t) ==
    IF inventory = <<>> THEN <<>>
    ELSE LET item == Head(inventory)
             rest == Expiring(Tail(inventory), days, t)
         IN  IF ParseOutcome(item) = "ok"
                /\ strptime(item.expiry_date) <= t + days * DayTicks
             THEN <<[k \in (DOMAIN item) \cup {"days_until_expiry"} |->
                       IF k = "days_until_expiry"
                       THEN TimedeltaDays(strptime(item.expiry_date) - t)
                       ELSE item[k]]>> \o rest
             ELSE rest

RECURSIVE InsertByDays(_, _)
\* one step of the stable sort on days_until_expiry
InsertByDays(sorted, x) ==
    IF sorted = <<>> THEN <<x>>
    ELSE IF Head(sorted).days_until_expiry <= x.days_until_expiry
         THEN <<Head(sorted)>> \o InsertByDays(Tail(sorted), x)
         ELSE <<x>> \o sorted

\* SortByDays with the sort left out
SortByDaysAsIs(xs) == xs

RECURSIVE SortByDays(_)
\* expiring_soon.sort(key=lambda x: x.get('days_until_expiry', 999))
SortByDays(xs) ==
    IF xs = <<>> THEN <<>>
    ELSE InsertByDays(SortByDays(SubSeq(xs, 1, Len(xs) - 1)), xs[Len(xs)])

\* InventoryMonitor.get_expiring_soon_products
get_expiring_soon_products(inventory, days, t) ==
    SortByDays(Expiring(inventory, days, t))

\* Scanned with days_until_expiry written into the item of the listing
ScannedInPlace(inventory, days, t) ==
    [i \in 1..Len(inventory) |->
        IF ParseOutcome(inventory[i]) = "ok"
           /\ strptime(inventory[i].expiry_date) <= t + days * DayTicks
        THEN [k \in (DOMAIN inventory[i]) \cup {"days_until_expiry"} |->
                 IF k = "days_until_expiry"
                 THEN TimedeltaDays(strptime(inventory[i].expiry_date) - t)
                 ELSE inventory[i][k]]
        ELSE inventory[i]]

\* the listing passed to get_expiring_soon_products, after the call: the loop
\* writes days_until_expiry into item_copy = item.copy() and appends that, so
\* the items of the listing are as they were
Scanned(inventory, days, t) == inventory

(***************************************************************************)
(* State.                                                                  *)
(***************************************************************************)
VARIABLES
    history,    \* InventoryMonitor.history, the store in memory
    file,       \* the backing file inventory_history.json
    config,     \* what the process was started with
    now,        \* the clock, datetime.now()
    pc,         \* the position of check_inventory_once
    page,       \* the rows of the page the current fetch read
    current,    \* current_inventory of check_inventory_once
    changes,    \* changes of check_inventory_once
    calls,      \* the collaborator calls of the current cycle, in order
    out,        \* what the current cycle emitted
    outcome,    \* how the last cycle ended
    start,      \* the store, in memory and on file, when the cycle started
    fetched,    \* the listings the fetches of this process returned
    latestPage, \* the rows of the page history['latest'] was scraped from
    sched,      \* run_scheduled_monitoring: where the process is
    scan,       \* get_expiring_soon_products called on its own
    batch,      \* the order processor: its files and where its loop is
    proc,       \* main() of either program: its environment and its exit
    scraper,    \* the WebScraper of get_current_inventory
    extract     \* the order data extractor called on its own

vars == <<history, file, config, now, pc, page, current, changes, calls, out,
          outcome, start, fetched, latestPage, sched, scan, batch, proc,
          scraper, extract>>

\* the state of the parts a specification leaves out
NoSched == [state |-> "none", scheduled |-> FALSE, aborted |-> FALSE]
NoScan == [state |-> "none"]
NoBatch == [state |-> "none"]
NoProc == [state |-> "none"]
NoScraper == [state |-> "none"]
NoExtract == [state |-> "none"]

(***************************************************************************)
(* The differ on its own: compare_inventory applied to every pair of       *)
(* bounded listings.                                                       *)
(***************************************************************************)
Products == {<<"a">>, <<"b">>}
Expiries == {"2024-01-01", "2024-06-01"}

\* the items of the listings compared: product a with either expiry text,
\* product b with the first only
DiffItems ==
    {item \in [product : Products, quantity : 0..MaxQty,
               expiry_date : Expiries, scraped_at : {0}] :
        item.product = <<"b">> => item.expiry_date = "2024-01-01"}

DiffListings == SeqsUpTo(DiffItems, MaxLen)

NoOut ==
    [shipment_notified |-> FALSE, email |-> "none", change_rows |-> 0,
     history_rows |-> 0, file_write |-> "none", expiry_notified |-> FALSE,
     expiry_email |-> "none"]

NoFetch ==
    [returned |-> FALSE, last |-> <<>>, nonempty |-> FALSE,
     last_nonempty |-> <<>>]

\* the backing file: absent, unreadable as JSON, or holding a store
MissingFile == [state |-> "missing", store |-> EmptyStore]
CorruptFile == [state |-> "corrupt", store |-> EmptyStore]
FileOf(h) == [state |-> "ok", store |-> h]

\* InventoryMonitor._load_history
_load_history(f) == IF f.state = "ok" THEN f.store ELSE EmptyStore

InitDiff ==
    /\ \E previous \in DiffListings :
          history \in {HistoryPut(EmptyStore, previous, 0)}
                         \cup (IF previous = <<>> THEN {EmptyStore} ELSE {})
    /\ file = FileOf(history)
    /\ config = [sheets_client |-> FALSE, check_expiry |-> FALSE]
    /\ now = 1
    /\ pc = "compare"
    /\ page = <<>>
    /\ current = <<>>
    /\ changes = NoChanges
    /\ calls = <<>>
    /\ out = NoOut
    /\ outcome = "none"
    /\ start = [history |-> history, file |-> file]
    /\ fetched = NoFetch
    /\ latestPage = <<>>
    /\ sched = NoSched
    /\ scan = NoScan
    /\ batch = NoBatch
    /\ proc = NoProc
    /\ scraper = NoScraper
    /\ extract = NoExtract

\* changes = monitor.compare_inventory(cur), for any listing cur
DiffCompare ==
    /\ pc = "compare"
    /\ \E cur \in DiffListings :
          /\ current' = cur
          /\ changes' = compare_inventory(cur, history, now)
    /\ pc' = "compared"
    /\ UNCHANGED <<history, file, config, now, page, calls, out, outcome,
                   start, fetched, latestPage, sched, scan, batch,
                   proc, scraper, extract>>

NextDiff == DiffCompare

SpecDiff == InitDiff /\ [][NextDiff]_vars


(***************************************************************************)
(* The monitoring cycle, check_inventory_once, step by step.               *)
(***************************************************************************)
Row(name, quantity, expiry) ==
    [product |-> name, quantity |-> quantity, expiry_date |-> expiry]

\* the pages the warehouse site may show
Pages ==
    { <<>>,
      <<Row(<<"a">>, 2, "2024-01-10")>>,
      <<Row(<<" ", "a">>, 1, "2024-01-10"), Row(<<"b">>, 1, "N/A")>>,
      <<Row(<<"a", " ">>, 1, "2024-06-01")>>,
      <<Row(<<"b">>, 2, "2024-01-01"), Row(<<"b">>, 0, "2024-01-01")>>,
      <<Row(<<"a">>, 0, "2024-01-10"), Row(<<"b">>, 2, "N/A")>> }

\* the state after InventoryMonitor.__init__: the store is what the file holds;
\* a readable file was written by an earlier run from a page that had rows
InitMonitor ==
    /\ \E p \in Pages :
          /\ latestPage = p
          /\ file \in (IF p = <<>>
                       THEN {MissingFile, CorruptFile}
                       ELSE {FileOf(HistoryPut(EmptyStore,
                                               scrape_inventory(p, 0), 0))})
    /\ history = _load_history(file)
    /\ config \in [sheets_client : BOOLEAN, check_expiry : BOOLEAN]
    /\ now = 0
    /\ pc = "idle"
    /\ page = <<>>
    /\ current = <<>>
    /\ changes = NoChanges
    /\ calls = <<>>
    /\ out = NoOut
    /\ outcome = "none"
    /\ start = [history |-> history, file |-> file]
    /\ fetched = NoFetch

\* the monitor constructed, and nothing but cycles to come
Init ==
    /\ InitMonitor
    /\ sched = NoSched
    /\ scan = NoScan
    /\ batch = NoBatch
    /\ proc = NoProc
    /\ scraper = NoScraper
    /\ extract = NoExtract

\* FetchRaises treating the failure as an empty listing and saving it
FetchRaisesSaving ==
    /\ pc = "idle"
    /\ now < MaxClock
    /\ now' = now + 1
    /\ start' = [history |-> history, file |-> file]
    /\ calls' = <<"get_current_inventory">>
    /\ page' = <<>>
    /\ current' = <<>>
    /\ changes' = NoChanges
    /\ out' = NoOut
    /\ outcome' = "aborted"
    /\ pc' = "idle"
    /\ history' = HistoryPut(history, <<>>, now')
    /\ file' = FileOf(history')
    /\ UNCHANGED <<config, fetched, latestPage>>

\* get_current_inventory raises (login or scrape failure): the except clause
\* of check_inventory_once logs it and the cycle is over
FetchRaises ==
    /\ pc = "idle"
    /\ now < MaxClock
    /\ now' = now + 1
    /\ start' = [history |-> history, file |-> file]
    /\ calls' = <<"get_current_inventory">>
    /\ page' = <<>>
    /\ current' = <<>>
    /\ changes' = NoChanges
    /\ out' = NoOut
    /\ outcome' = "aborted"
    /\ pc' = "idle"
    /\ UNCHANGED <<history, file, config, fetched, latestPage>>

\* FetchReturns without the early return on an empty listing
FetchReturnsNoGuard ==
    /\ pc = "idle"
    /\ now < MaxClock
    /\ now' = now + 1
    /\ start' = [history |-> history, file |-> file]
    /\ calls' = <<"get_current_inventory">>
    /\ \E p \in Pages :
          /\ page' = p
          /\ current' = scrape_inventory(p, now')
    /\ changes' = NoChanges
    /\ out' = NoOut
    /\ fetched' = [returned      |-> TRUE,
                   last          |-> current',
                   nonempty      |-> fetched.nonempty \/ current' # <<>>,
                   last_nonempty |-> IF current' # <<>> THEN current'
                                     ELSE fetched.last_nonempty]
    /\ outcome' = IF current' = <<>> THEN "empty" ELSE "running"
    /\ pc' = "compare"
    /\ UNCHANGED <<history, file, config, latestPage>>

\* get_current_inventory returns the listing of page p; an empty listing
\* ends the cycle at once
FetchReturns ==
    /\ pc = "idle"
    /\ now < MaxClock
    /\ now' = now + 1
    /\ start' = [history |-> history, file |-> file]
    /\ calls' = <<"get_current_inventory">>
    /\ \E p \in Pages :
          /\ page' = p
          /\ current' = scrape_inventory(p, now')
    /\ changes' = NoChanges
    /\ out' = NoOut
    /\ fetched' = [returned      |-> TRUE,
                   last          |-> current',
                   nonempty      |-> fetched.nonempty \/ current' # <<>>,
                   last_nonempty |-> IF current' # <<>> THEN current'
                                     ELSE fetched.last_nonempty]
    /\ outcome' = IF current' = <<>> THEN "empty" ELSE "running"
    /\ pc' = IF current' = <<>> THEN "idle" ELSE "compare"
    /\ UNCHANGED <<history, file, config, latestPage>>

\* changes = monitor.compare_inventory(current_inventory)
Compare ==
    /\ pc = "compare"
    /\ changes' = compare_inventory(current, history, now)
    /\ calls' = Append(calls, "compare_inventory")
    /\ pc' = "notify"
    /\ UNCHANGED <<history, file, config, now, page, current, out, outcome,
                   start, fetched, latestPage>>

\* NotifyShipment with the snapshot saved first and the notification after it
NotifyAfterPersist ==
    /\ pc = "notify"
    /\ history' = HistoryPut(history, current, now)
    /\ file' = FileOf(history')
    /\ latestPage' = page
    /\ IF SelectType(changes.changes, "shipment") # <<>>
       THEN /\ calls' = calls \o <<"save_inventory_snapshot",
                                    "notify_shipment",
                                    "save_changes_to_sheets">>
            /\ out' = [out EXCEPT !.shipment_notified = TRUE,
                                  !.email = "sent"]
       ELSE /\ calls' = Append(calls, "save_inventory_snapshot")
            /\ out' = out
    /\ pc' = "expiry"
    /\ UNCHANGED <<config, now, page, current, changes, outcome, start,
                   fetched>>

\* NotifyShipment with the error of the send leaving notify_shipment: the
\* except clause of check_inventory_once ends the cycle
NotifyShipmentRaising ==
    /\ pc = "notify"
    /\ IF SelectType(changes.changes, "shipment") # <<>>
       THEN \E mail \in {"sent", "failed", "no_address", "no_credentials"},
               sheet_ok \in BOOLEAN :
               IF mail = "failed"
               THEN /\ calls' = Append(calls, "notify_shipment")
                    /\ out' = [out EXCEPT !.email = mail]
                    /\ outcome' = "aborted"
                    /\ pc' = "idle"
               ELSE /\ calls' = calls \o <<"notify_shipment",
                                            "save_changes_to_sheets">>
                    /\ out' = [out EXCEPT
                                 !.shipment_notified = TRUE,
                                 !.email = mail,
                                 !.change_rows =
                                     IF config.sheets_client /\ sheet_ok
                                     THEN Len(changes.changes) ELSE 0]
                    /\ outcome' = outcome
                    /\ pc' = "persist"
       ELSE /\ pc' = "persist"
            /\ UNCHANGED <<calls, out, outcome>>
    /\ UNCHANGED <<history, file, config, now, page, current, changes,
                   start, fetched, latestPage>>

\* NotifyShipment with one row of the change sheet per shipment
NotifyShipmentRowPerShipment ==
    /\ pc = "notify"
    /\ IF SelectType(changes.changes, "shipment") # <<>>
       THEN /\ calls' = calls \o <<"notify_shipment", "save_changes_to_sheets">>
            /\ \E mail \in {"sent", "failed", "no_address", "no_credentials"},
                  sheet_ok \in BOOLEAN :
                  out' = [out EXCEPT
                            !.shipment_notified = TRUE,
                            !.email = mail,
                            !.change_rows =
                                IF config.sheets_client /\ sheet_ok
                                THEN Len(SelectType(changes.changes,
                                                    "shipment"))
                                ELSE 0]
       ELSE UNCHANGED <<calls, out>>
    /\ pc' = "persist"
    /\ UNCHANGED <<history, file, config, now, page, current, changes,
                   outcome, start, fetched, latestPage>>

\* if shipments: notifier.notify_shipment(...); monitor.save_changes_to_sheets(...)
\* The email is sent, fails (caught in _send_email_notification) or is skipped
\* for want of an address or of credentials; a sheet error is caught too.
NotifyShipment ==
    /\ pc = "notify"
    /\ IF SelectType(changes.changes, "shipment") # <<>>
       THEN /\ calls' = calls \o <<"notify_shipment", "save_changes_to_sheets">>
            /\ \E mail \in {"sent", "failed", "no_address", "no_credentials"},
                  sheet_ok \in BOOLEAN :
                  out' = [out EXCEPT
                            !.shipment_notified = TRUE,
                            !.email = mail,
                            !.change_rows =
                                IF config.sheets_client /\ sheet_ok
                                THEN Len(changes.changes) ELSE 0]
       ELSE UNCHANGED <<calls, out>>
    /\ pc' = "persist"
    /\ UNCHANGED <<history, file, config, now, page, current, changes,
                   outcome, start, fetched, latestPage>>

\* Persist keeping a store without `latest` as it is: only an established
\* store is updated
PersistExistingKey ==
    /\ pc = "persist"
    /\ history' = IF "latest" \in DOMAIN history
                  THEN HistoryPut(history, current, now) ELSE history
    /\ file' = FileOf(history')
    /\ out' = [out EXCEPT !.file_write = "ok"]
    /\ latestPage' = page
    /\ calls' = Append(calls, "save_inventory_snapshot")
    /\ pc' = "expiry"
    /\ UNCHANGED <<config, now, page, current, changes, outcome, start,
                   fetched>>

\* Persist saving the snapshot only when the comparison found a change
PersistOnChange ==
    /\ pc = "persist"
    /\ history' = IF changes.changes = <<>> THEN history
                  ELSE HistoryPut(history, current, now)
    /\ file' = FileOf(history')
    /\ out' = [out EXCEPT !.file_write = "ok"]
    /\ latestPage' = page
    /\ calls' = Append(calls, "save_inventory_snapshot")
    /\ pc' = "expiry"
    /\ UNCHANGED <<config, now, page, current, changes, outcome, start,
                   fetched>>

\* monitor.save_inventory_snapshot(current_inventory): the store in memory is
\* updated; _save_history rewrites the file, and an error while opening it
\* (file untouched) or while dumping (file truncated) is caught and logged
Persist ==
    /\ pc = "persist"
    /\ history' = HistoryPut(history, current, now)
    /\ \E written \in {"ok", "open_fails", "dump_fails"}, sheet_ok \in BOOLEAN :
          /\ file' = CASE written = "ok" -> FileOf(history')
                      [] written = "open_fails" -> file
                      [] written = "dump_fails" -> CorruptFile
          /\ out' = [out EXCEPT !.file_write = written,
                                !.history_rows =
                                   IF config.sheets_client /\ sheet_ok
                                   THEN Len(current) ELSE 0]
    /\ latestPage' = page
    /\ calls' = Append(calls, "save_inventory_snapshot")
    /\ pc' = "expiry"
    /\ UNCHANGED <<config, now, page, current, changes, outcome, start,
                   fetched>>

\* if check_expiry: get_expiring_soon_products, then notify_expiring_soon
\* when some product expires soon: the email is sent, fails (caught in
\* _send_expiry_email) or is skipped, and the list is printed; the cycle is
\* complete.  The listing scanned is the list object save_inventory_snapshot
\* put under history['latest'], so what the scan did to it shows there too.
ExpiryCheck ==
    /\ pc = "expiry"
    /\ IF config.check_expiry
       THEN IF get_expiring_soon_products(current, ExpiryDays, now) # <<>>
            THEN /\ calls' = calls \o <<"get_expiring_soon_products",
                                         "notify_expiring_soon">>
                 /\ \E mail \in {"sent", "failed", "no_address",
                                  "no_credentials"} :
                       out' = [out EXCEPT !.expiry_notified = TRUE,
                                          !.expiry_email = mail]
            ELSE /\ calls' = Append(calls, "get_expiring_soon_products")
                 /\ out' = out
       ELSE UNCHANGED <<calls, out>>
    /\ current' = IF config.check_expiry
                  THEN Scanned(current, ExpiryDays, now) ELSE current
    /\ history' = IF HistoryGet(history, "latest") = current
                     /\ "latest" \in DOMAIN history
                  THEN [history EXCEPT !["latest"] = current'] ELSE history
    /\ outcome' = "done"
    /\ pc' = "idle"
    /\ UNCHANGED <<file, config, now, page, changes, start, fetched,
                   latestPage>>

\* cycle after cycle, nothing else
Next ==
    \/ FetchRaises /\ UNCHANGED <<sched, scan, batch,
                                  proc, scraper, extract>>
    \/ FetchReturns /\ UNCHANGED <<sched, scan, batch,
                                   proc, scraper, extract>>
    \/ Compare /\ UNCHANGED <<sched, scan, batch,
                              proc, scraper, extract>>
    \/ NotifyShipment /\ UNCHANGED <<sched, scan, batch,
                                     proc, scraper, extract>>
    \/ Persist /\ UNCHANGED <<sched, scan, batch,
                              proc, scraper, extract>>
    \/ ExpiryCheck /\ UNCHANGED <<sched, scan, batch,
                                  proc, scraper, extract>>

Spec == Init /\ [][Next]_vars


(***************************************************************************)
(* The process: run_scheduled_monitoring around the cycles, the interrupt  *)
(* of the operator and the death of the process while the file is written. *)
(***************************************************************************)
\* main() has built the monitor, here without a sheets client (none is
\* configured, or its construction failed and main() went on without it),
\* and calls run_scheduled_monitoring
InitRun ==
    /\ InitMonitor
    /\ ~config.sheets_client
    /\ sched = [state |-> "initial", scheduled |-> FALSE, aborted |-> FALSE]
    /\ scan = NoScan
    /\ batch = NoBatch
    /\ proc = NoProc
    /\ scraper = NoScraper
    /\ extract = NoExtract

\* RunFetchRaises with the exception leaving check_inventory_once: nothing
\* in run_scheduled_monitoring catches it and the process ends
RunFetchRaisesUncaught ==
    /\ sched.state \in {"initial", "due"}
    /\ FetchRaises
    /\ sched' = [sched EXCEPT !.state = "failed"]
    /\ UNCHANGED <<scan, batch,
                   proc, scraper, extract>>

\* check_inventory_once is entered, by the initial call or by run_pending,
\* and its fetch raises
RunFetchRaises ==
    /\ sched.state \in {"initial", "due"}
    /\ FetchRaises
    /\ sched' = [sched EXCEPT !.state = "cycle",
                              !.scheduled = (sched.state = "due")]
    /\ UNCHANGED <<scan, batch,
                   proc, scraper, extract>>

\* check_inventory_once is entered and its fetch returns
RunFetchReturns ==
    /\ sched.state \in {"initial", "due"}
    /\ FetchReturns
    /\ sched' = [sched EXCEPT !.state = "cycle",
                              !.scheduled = (sched.state = "due")]
    /\ UNCHANGED <<scan, batch,
                   proc, scraper, extract>>

\* the remaining steps of the cycle the process is in
RunCompare ==
    sched.state = "cycle" /\ Compare /\ UNCHANGED <<sched, scan, batch,
                                                    proc, scraper, extract>>

RunNotifyShipment ==
    sched.state = "cycle" /\ NotifyShipment /\ UNCHANGED <<sched, scan, batch,
                                                           proc, scraper, extract>>

RunPersist ==
    sched.state = "cycle" /\ Persist /\ UNCHANGED <<sched, scan, batch,
                                                    proc, scraper, extract>>

RunExpiryCheck ==
    sched.state = "cycle" /\ ExpiryCheck /\ UNCHANGED <<sched, scan, batch,
                                                        proc, scraper, extract>>

\* check_inventory_once returns to run_scheduled_monitoring, which goes (back)
\* to its loop of run_pending and sleep
CycleReturns ==
    /\ sched.state = "cycle"
    /\ pc = "idle"
    /\ sched' = [state     |-> "sleeping",
                 scheduled |-> FALSE,
                 aborted   |-> sched.aborted \/ outcome = "aborted"]
    /\ UNCHANGED <<history, file, config, now, pc, page, current, changes,
                   calls, out, outcome, start, fetched, latestPage, scan,
                   batch,
                   proc, scraper, extract>>

\* the interval has passed: run_pending finds the job due
Tick ==
    /\ sched.state = "sleeping"
    /\ now < MaxClock
    /\ sched' = [sched EXCEPT !.state = "due"]
    /\ UNCHANGED <<history, file, config, now, pc, page, current, changes,
                   calls, out, outcome, start, fetched, latestPage, scan,
                   batch,
                   proc, scraper, extract>>

\* KeyboardInterrupt, whenever it arrives.  It is no Exception, so the except
\* clause of check_inventory_once lets it pass: inside the try of the loop
\* it ends in sys.exit(0), in the initial check it ends the process with a
\* traceback.  Whatever the cycle had not done yet stays undone.
KeyboardInterrupt ==
    /\ sched.state \in {"initial", "cycle", "sleeping", "due"}
    /\ sched' = [sched EXCEPT
                   !.state = IF \/ sched.state \in {"sleeping", "due"}
                                \/ sched.state = "cycle" /\ sched.scheduled
                             THEN "stopped" ELSE "killed"]
    /\ UNCHANGED <<history, file, config, now, pc, page, current, changes,
                   calls, out, outcome, start, fetched, latestPage, scan,
                   batch,
                   proc, scraper, extract>>

\* the process dies (power loss, kill) inside _save_history: before
\* open(..., 'w'), after open has truncated the file and before json.dump
\* has written all of it, or after the write
CrashInSave ==
    /\ sched.state = "cycle"
    /\ pc = "persist"
    /\ \E reached \in {"before_open", "truncated", "written"} :
          file' = CASE reached = "before_open" -> file
                    [] reached = "truncated" -> CorruptFile
                    [] reached = "written" ->
                           FileOf(HistoryPut(history, current, now))
    /\ sched' = [sched EXCEPT !.state = "crashed"]
    /\ UNCHANGED <<history, config, now, pc, page, current, changes, calls,
                   out, outcome, start, fetched, latestPage, scan, batch,
                   proc, scraper, extract>>

\* the steps that go on by themselves: a cycle runs on and returns, time passes
RunOn ==
    \/ RunFetchRaises
    \/ RunFetchReturns
    \/ RunCompare
    \/ RunNotifyShipment
    \/ RunPersist
    \/ RunExpiryCheck
    \/ CycleReturns
    \/ Tick

NextRun ==
    \/ RunFetchRaises
    \/ RunFetchReturns
    \/ RunCompare
    \/ RunNotifyShipment
    \/ RunPersist
    \/ RunExpiryCheck
    \/ CycleReturns
    \/ Tick
    \/ KeyboardInterrupt
    \/ CrashInSave

\* every call returns and the loop keeps polling; nothing makes an interrupt
\* or a crash happen
SpecRun == InitRun /\ [][NextRun]_vars /\ WF_vars(RunOn)


(***************************************************************************)
(* The expiry scanner on its own: get_expiring_soon_products for any       *)
(* listing, horizon and time of day.                                       *)
(***************************************************************************)
\* the horizons asked for: today only, eight days, the default
Horizons == {0, 8, ExpiryDays}

\* items with a date, with a text that is no date, and without the key
ScanItems ==
    {[product |-> <<"a">>, quantity |-> 1, expiry_date |-> e] :
        e \in IsoDates \cup {"N/A"}}
      \cup {[product |-> <<"b">>, quantity |-> 1]}

ScanListings == SeqsUpTo(ScanItems, MaxLen)

InitExpiry ==
    /\ current \in ScanListings
    /\ now \in 0..MaxClock
    /\ scan = NoScan
    /\ pc = "scan"
    /\ history = EmptyStore
    /\ file = MissingFile
    /\ config = [sheets_client |-> FALSE, check_expiry |-> TRUE]
    /\ page = <<>>
    /\ changes = NoChanges
    /\ calls = <<>>
    /\ out = NoOut
    /\ outcome = "none"
    /\ start = [history |-> history, file |-> file]
    /\ fetched = NoFetch
    /\ latestPage = <<>>
    /\ sched = NoSched
    /\ batch = NoBatch
    /\ proc = NoProc
    /\ scraper = NoScraper
    /\ extract = NoExtract

\* monitor.get_expiring_soon_products(current, days=days) at the time now
ExpiryScan ==
    /\ pc = "scan"
    /\ \E days \in Horizons :
          scan' = IF ScanRaises(current)
                  THEN [state |-> "raised", days |-> days, result |-> <<>>]
                  ELSE [state  |-> "returned",
                        days   |-> days,
                        result |-> get_expiring_soon_products(current, days,
                                                              now)]
    /\ pc' = "scanned"
    /\ UNCHANGED <<history, file, config, now, page, current, changes, calls,
                   out, outcome, start, fetched, latestPage, sched, batch,
                   proc, scraper, extract>>

NextExpiry == ExpiryScan

SpecExpiry == InitExpiry /\ [][NextExpiry]_vars


(***************************************************************************)
(* The order processor: main() of main.py over the files of one run.       *)
(***************************************************************************)
\* the extensions OCRProcessor.extract_text accepts
Supported == {"pdf", "png", "jpg", "jpeg", "tiff", "bmp"}

\* the extensions main() collects from the input folder
Globbed == {"pdf", "png", "jpg", "jpeg"}

\* the extensions of the files used here: two that are collected, one that
\* extract_text refuses
Extensions == {"pdf", "png", "txt"}

\* what the OCR gives for a file: an error, blank text, or text
OcrError == [raised |-> "OcrError", text |-> <<>>]
OcrText(text) == [raised |-> "none", text |-> text]
OcrOutcomes == {OcrError, OcrText(<<" ">>), OcrText(<<"a">>)}

\* an entry of files_to_process: a str when it comes from --file, a Path
\* when it comes from input_path.glob
OrderFiles(path_type, exts) ==
    [path_type : {path_type}, ext : exts, ocr : OcrOutcomes]

\* OCRProcessor.extract_text
extract_text(f) ==
    IF f.ext = "pdf" THEN f.ocr
    ELSE IF f.ext \in Supported THEN f.ocr
    ELSE [raised |-> "ValueError", text |-> <<>>]

\* what process_file did: its return value, why it returned False, whether
\* rows were appended, whether an exception left it
Processed(returned, why, escaped) ==
    [returned |-> returned, why |-> why, appended |-> returned,
     escaped |-> escaped]

\* process_file without its try: the error of the OCR leaves it
process_fileUnguarded(f, manual_review, response, append) ==
    LET extracted == extract_text(f)
    IN  IF extracted.raised = "OcrError"
        THEN Processed(FALSE, extracted.raised, TRUE)
        ELSE IF extracted.raised # "none"
        THEN Processed(FALSE, extracted.raised, FALSE)
        ELSE IF Strip(extracted.text) = <<>>
        THEN Processed(FALSE, "empty_text", FALSE)
        ELSE IF manual_review /\ response # "y"
        THEN Processed(FALSE, "cancelled", FALSE)
        ELSE IF append # "ok"
        THEN Processed(FALSE, append, FALSE)
        ELSE Processed(TRUE, "none", FALSE)

\* process_file: every exception inside is caught and makes it return False
process_file(f, manual_review, response, append) ==
    LET extracted == extract_text(f)
    IN  IF extracted.raised # "none"
        THEN Processed(FALSE, extracted.raised, FALSE)
        ELSE IF Strip(extracted.text) = <<>>
        THEN Processed(FALSE, "empty_text", FALSE)
        ELSE IF manual_review /\ response # "y"
        THEN Processed(FALSE, "cancelled", FALSE)
        ELSE IF append # "ok"
        THEN Processed(FALSE, append, FALSE)
        ELSE Processed(TRUE, "none", FALSE)

\* Path(processed_folder) / file_path.name; file_path.rename(processed_path):
\* a str has no attribute name, and rename may fail; both are caught
Moved(f, rename_ok) == f.path_type = "Path" /\ rename_ok

\* files_to_process as main() builds it: the one file of --file, or the
\* files of the input folder
Batches ==
    {[state |-> "running", mode |-> "file", manual_review |-> manual_review,
      files |-> <<f>>, results |-> <<>>] :
        manual_review \in BOOLEAN, f \in OrderFiles("str", Extensions)}
      \cup
    {[state |-> "running", mode |-> "scan", manual_review |-> manual_review,
      files |-> fs, results |-> <<>>] :
        manual_review \in BOOLEAN,
        fs \in SeqsUpTo(OrderFiles("Path", Extensions \cap Globbed), MaxLen)}

\* main() has built files_to_process
InitOrders ==
    /\ batch \in Batches
    /\ history = EmptyStore
    /\ file = MissingFile
    /\ config = [sheets_client |-> TRUE, check_expiry |-> FALSE]
    /\ now = 0
    /\ pc = "orders"
    /\ page = <<>>
    /\ current = <<>>
    /\ changes = NoChanges
    /\ calls = <<>>
    /\ out = NoOut
    /\ outcome = "none"
    /\ start = [history |-> history, file |-> file]
    /\ fetched = NoFetch
    /\ latestPage = <<>>
    /\ sched = NoSched
    /\ scan = NoScan
    /\ proc = NoProc
    /\ scraper = NoScraper
    /\ extract = NoExtract

\* if not files_to_process: return
NothingToProcess ==
    /\ batch.state = "running"
    /\ batch.files = <<>>
    /\ batch' = [batch EXCEPT !.state = "finished"]
    /\ UNCHANGED <<history, file, config, now, pc, page, current, changes,
                   calls, out, outcome, start, fetched, latestPage, sched,
                   scan,
                   proc, scraper, extract>>

\* one turn of the loop of main(): process_file, and the move of the file
\* when it returned True; after the last file main() is done.  Nothing in
\* main() catches what leaves process_file.
ProcessNext ==
    /\ batch.state = "running"
    /\ Len(batch.results) < Len(batch.files)
    /\ \E response \in {"y", "n"}, append \in {"ok", "HttpError"},
          rename_ok \in BOOLEAN :
          LET f == batch.files[Len(batch.results) + 1]
              r == process_file(f, batch.manual_review, response, append)
              result == [returned |-> r.returned, why |-> r.why,
                         appended |-> r.appended,
                         moved |-> r.returned /\ Moved(f, rename_ok)]
          IN  batch' =
                 IF r.escaped THEN [batch EXCEPT !.state = "crashed"]
                 ELSE [batch EXCEPT
                         !.results = Append(@, result),
                         !.state = IF Len(batch.results) + 1 = Len(batch.files)
                                   THEN "finished" ELSE "running"]
    /\ UNCHANGED <<history, file, config, now, pc, page, current, changes,
                   calls, out, outcome, start, fetched, latestPage, sched,
                   scan,
                   proc, scraper, extract>>

NextOrders ==
    \/ NothingToProcess
    \/ ProcessNext

SpecOrders == InitOrders /\ [][NextOrders]_vars


(***************************************************************************)
(* The order data extractor: extract_date, extract_items and               *)
(* format_for_sheets of OrderDataExtractor, on texts given as sequences of *)
(* characters.                                                             *)
(***************************************************************************)
\* \d, for the digits used here
Digits == {"0", "1", "2", "3", "4", "5", "9"}

DigitOf(c) ==
    CASE c = "0" -> 0 [] c = "1" -> 1 [] c = "2" -> 2 [] c = "3" -> 3
      [] c = "4" -> 4 [] c = "5" -> 5 [] c = "9" -> 9

\* the character of a digit value, as strftime and str() write it
CharOf(n) ==
    CASE n = 0 -> "0" [] n = 1 -> "1" [] n = 2 -> "2" [] n = 3 -> "3"
      [] n = 4 -> "4" [] n = 5 -> "5" [] n = 6 -> "6" [] n = 7 -> "7"
      [] n = 8 -> "8" [] n = 9 -> "9"

RECURSIVE IntOf(_)
\* int(digits)
IntOf(digits) ==
    IF digits = <<>> THEN 0
    ELSE 10 * IntOf(SubSeq(digits, 1, Len(digits) - 1))
            + DigitOf(digits[Len(digits)])

\* the number of digits that begin at position i, at most max of them
DigitsAt(text, i, max) ==
    LET upto == {k \in 0..max :
                    \A j \in i..(i + k - 1) :
                        j <= Len(text) /\ text[j] \in Digits}
    IN  CHOOSE k \in upto : \A l \in upto : l <= k

\* self.date_patterns: the digits of the year and the two separators
\* ("nen", "gatsu", "nichi" stand for the characters of year, month and day)
date_patterns ==
    << [year |-> 4, first |-> {"nen", "/"}, second |-> {"gatsu", "/"}],
       [year |-> 2, first |-> {"nen", "/"}, second |-> {"gatsu", "/"}],
       [year |-> 4, first |-> {"-"}, second |-> {"-"}] >>

\* the pattern matches at position i: the year's digits, a separator, one or
\* two digits (as many as there are), a separator, one or two digits
MatchesAt(text, i, pattern) ==
    LET m == i + pattern.year + 1
        months == DigitsAt(text, m, 2)
        d == m + months + 1
    IN  /\ DigitsAt(text, i, pattern.year) = pattern.year
        /\ i + pattern.year <= Len(text)
        /\ text[i + pattern.year] \in pattern.first
        /\ months >= 1
        /\ m + months <= Len(text)
        /\ text[m + months] \in pattern.second
        /\ DigitsAt(text, d, 2) >= 1

\* re.search(pattern, text): the groups of the leftmost match, if any
Search(text, pattern) ==
    LET at == {i \in 1..Len(text) : MatchesAt(text, i, pattern)}
    IN  IF at = {} THEN [matched |-> FALSE]
        ELSE LET i == CHOOSE i \in at : \A j \in at : i <= j
                 m == i + pattern.year + 1
                 months == DigitsAt(text, m, 2)
                 d == m + months + 1
             IN  [matched |-> TRUE,
                  year    |-> SubSeq(text, i, i + pattern.year - 1),
                  month   |-> SubSeq(text, m, m + months - 1),
                  day     |-> SubSeq(text, d, d + DigitsAt(text, d, 2) - 1)]

\* the year of a match: two digits up to 30 are 20yy, above 30 are 19yy
YearOf(year) ==
    IF Len(year) = 2
    THEN IF IntOf(year) <= 30 THEN 2000 + IntOf(year) ELSE 1900 + IntOf(year)
    ELSE IntOf(year)

IsLeap(y) == (y % 4 = 0 /\ y % 100 # 0) \/ y % 400 = 0

DaysInMonth(y, m) ==
    IF m = 2 THEN (IF IsLeap(y) THEN 29 ELSE 28)
    ELSE IF m \in {4, 6, 9, 11} THEN 30 ELSE 31

\* datetime(y, m, d) does not raise ValueError
ValidDate(y, m, d) ==
    /\ y >= 1 /\ y <= 9999
    /\ m >= 1 /\ m <= 12
    /\ d >= 1 /\ d <= DaysInMonth(y, m)

\* two and four digits with leading zeros
Pad2(n) == <<CharOf(n \div 10), CharOf(n % 10)>>
Pad4(n) == Pad2(n \div 100) \o Pad2(n % 100)

RECURSIVE Decimal(_)
\* the digits of a number without leading zeros
Decimal(n) ==
    IF n < 10 THEN <<CharOf(n)>> ELSE Decimal(n \div 10) \o <<CharOf(n % 10)>>

\* date_obj.strftime('%Y-%m-%d'): the C library writes %Y, and for a year
\* below 1000 it pads to four digits or does not, depending on the platform
strftime(y, m, d, pads_year) ==
    (IF pads_year THEN Pad4(y) ELSE Decimal(y))
        \o <<"-">> \o Pad2(m) \o <<"-">> \o Pad2(d)

\* the match of a pattern as a date, when it is one
DateOf(found) ==
    [year  |-> YearOf(found.year),
     month |-> IntOf(found.month),
     day   |-> IntOf(found.day)]

\* the patterns, in order, whose leftmost match is a valid date
Yielding(text) ==
    {k \in 1..Len(date_patterns) :
        LET found == Search(text, date_patterns[k])
        IN  /\ found.matched
            /\ ValidDate(DateOf(found).year, DateOf(found).month,
                         DateOf(found).day)}

\* OrderDataExtractor.extract_date: None, or the text of the date
extract_date(text, pads_year) ==
    IF Yielding(text) = {} THEN [found |-> FALSE, date |-> <<>>]
    ELSE LET k == CHOOSE k \in Yielding(text) :
                      \A l \in Yielding(text) : k <= l
             date == DateOf(Search(text, date_patterns[k]))
         IN  [found |-> TRUE,
              date  |-> strftime(date.year, date.month, date.day, pads_year)]


RECURSIVE Split(_)
\* text.split('\n'): the lines of a text, the last one possibly empty
Split(text) ==
    IF \A i \in 1..Len(text) : text[i] # "\n" THEN <<text>>
    ELSE LET i == CHOOSE i \in 1..Len(text) :
                      /\ text[i] = "\n"
                      /\ \A j \in 1..(i - 1) : text[j] # "\n"
         IN  <<SubSeq(text, 1, i - 1)>> \o Split(SubSeq(text, i + 1, Len(text)))

\* [\d,] of the amount, quantity and unit price patterns
Numeric == Digits \cup {","}

\* the longest run of numeric characters that begins at position i
RunAt(line, i) ==
    LET ends == {k \in i..Len(line) : \A j \in i..k : line[j] \in Numeric}
    IN  SubSeq(line, i, CHOOSE k \in ends : \A l \in ends : l <= k)

\* value.replace(c, '')
Without(value, c) == SelectSeq(value, LAMBDA x : x # c)

\* re.search of a pattern keyword[:\s]*([\d,]+), the keyword being two
\* characters: the group of the leftmost match, if any
SearchKeyword(line, first, second) ==
    LET afterSeparators(i) ==
            CHOOSE k \in i..(Len(line) + 1) :
                /\ \A j \in i..(k - 1) :
                      line[j] \in Whitespace \cup {":", "wide_colon"}
                /\ k = Len(line) + 1
                      \/ line[k] \notin Whitespace \cup {":", "wide_colon"}
        at == {i \in 1..(Len(line) - 1) :
                  /\ line[i] = first
                  /\ line[i + 1] = second
                  /\ afterSeparators(i + 2) <= Len(line)
                  /\ line[afterSeparators(i + 2)] \in Numeric}
    IN  IF at = {} THEN [matched |-> FALSE, group |-> <<>>]
        ELSE LET i == CHOOSE i \in at : \A j \in at : i <= j
             IN  [matched |-> TRUE,
                  group   |-> RunAt(line, afterSeparators(i + 2))]

\* re.findall(self.amount_pattern, line)[0], the pattern being [\d,]+[en]?:
\* the first run of numeric characters, with the yen sign that follows it
FirstAmount(line) ==
    LET at == {i \in 1..Len(line) : line[i] \in Numeric}
    IN  IF at = {} THEN [matched |-> FALSE, text |-> <<>>]
        ELSE LET i == CHOOSE i \in at : \A j \in at : i <= j
                 run == RunAt(line, i)
                 after == i + Len(run)
             IN  [matched |-> TRUE,
                  text |-> IF after <= Len(line) /\ line[after] = "yen"
                           THEN Append(run, "yen") ELSE run]

\* re.match(r'^[\d\s,yen]+$', line)
NumbersOnly(line) ==
    /\ line # <<>>
    /\ \A i \in 1..Len(line) :
          line[i] \in Numeric \cup Whitespace \cup {"yen"}

\* current_item = {} and current_item[key] = value
EmptyItem == [k \in {} |-> <<>>]
ItemPut(item, key, value) ==
    [k \in (DOMAIN item) \cup {key} |-> IF k = key THEN value ELSE item[k]]

\* ItemsLine with the amount taken from every line that has one
ItemsLineLastAmount(current_item, raw) ==
    LET line == Strip(raw)
        qty == SearchKeyword(line, "su", "ryo")
        price == SearchKeyword(line, "tan", "ka")
        amount == FirstAmount(line)
        withQty == IF qty.matched
                   THEN ItemPut(current_item, "quantity",
                                Without(qty.group, ","))
                   ELSE current_item
        withPrice == IF price.matched
                     THEN ItemPut(withQty, "unit_price",
                                  Without(price.group, ","))
                     ELSE withQty
        withAmount == IF amount.matched
                      THEN ItemPut(withPrice, "amount",
                                   Without(Without(amount.text, ","), "yen"))
                      ELSE withPrice
    IN  IF line = <<>> THEN current_item
        ELSE IF ~NumbersOnly(line) /\ Len(line) > 2
                /\ "product_name" \notin DOMAIN withAmount
        THEN ItemPut(withAmount, "product_name", line)
        ELSE withAmount

\* one turn of the loop of extract_items: the line is stripped, a blank line
\* is passed over; quantity and unit price are set by every line that has
\* them, amount and product name only while the item has none
ItemsLine(current_item, raw) ==
    LET line == Strip(raw)
        qty == SearchKeyword(line, "su", "ryo")
        price == SearchKeyword(line, "tan", "ka")
        amount == FirstAmount(line)
        withQty == IF qty.matched
                   THEN ItemPut(current_item, "quantity",
                                Without(qty.group, ","))
                   ELSE current_item
        withPrice == IF price.matched
                     THEN ItemPut(withQty, "unit_price",
                                  Without(price.group, ","))
                     ELSE withQty
        withAmount == IF amount.matched /\ "amount" \notin DOMAIN withPrice
                      THEN ItemPut(withPrice, "amount",
                                   Without(Without(amount.text, ","), "yen"))
                      ELSE withPrice
    IN  IF line = <<>> THEN current_item
        ELSE IF ~NumbersOnly(line) /\ Len(line) > 2
                /\ "product_name" \notin DOMAIN withAmount
        THEN ItemPut(withAmount, "product_name", line)
        ELSE withAmount

\* order_data.get(key, '') and item.get(key, '')
GetOr(record, key) == IF key \in DOMAIN record THEN record[key] ELSE <<>>

\* the row of format_for_sheets for one item
RowOf(order_data, item) ==
    << GetOr(order_data, "date"), GetOr(order_data, "customer_name"),
       GetOr(item, "product_name"), GetOr(item, "quantity"),
       GetOr(item, "unit_price"), GetOr(item, "amount"), <<>>,
       GetOr(order_data, "processed_at"), GetOr(order_data, "filename") >>

\* format_for_sheets with a record without items giving no row
format_for_sheetsNoBlank(order_data) ==
    [i \in 1..Len(GetOr(order_data, "items")) |->
        RowOf(order_data, order_data.items[i])]

\* OrderDataExtractor.format_for_sheets
format_for_sheets(order_data) ==
    IF GetOr(order_data, "items") = <<>>
    THEN <<RowOf(order_data, EmptyItem)>>
    ELSE [i \in 1..Len(order_data.items) |->
             RowOf(order_data, order_data.items[i])]


\* texts with a date: each pattern alone, the two-digit years around 30, an
\* impossible month, a leap day, a year with leading zeros, no date, and two
\* dates for different patterns
DateTexts ==
    { <<"2", "0", "2", "4", "/", "1", "/", "5">>,
      <<"2", "0", "2", "4", "nen", "1", "2", "gatsu", "3", "1", "nichi">>,
      <<"2", "4", "/", "1", "/", "5">>,
      <<"3", "1", "/", "1", "/", "5">>,
      <<"3", "0", "/", "1", "/", "5">>,
      <<"2", "0", "2", "4", "-", "0", "1", "-", "0", "5">>,
      <<"2", "0", "2", "4", "/", "1", "3", "/", "1">>,
      <<"1", "9", "0", "0", "/", "2", "/", "2", "9">>,
      <<"0", "0", "2", "4", "/", "1", "/", "5">>,
      <<"x">>,
      <<>>,
      <<"2", "0", "2", "4", "/", "1", "3", "/", "1", " ", "2", "0", "2", "4", "-", "0", "2", "-", "0", "3">>,
      <<"2", "0", "2", "4", "-", "0", "1", "-", "0", "5", " ", "2", "4", "/", "2", "/", "3">> }

\* lines of an order: text, short text, numbers, text with a number, a
\* quantity, a unit price with a comma, a comma alone, blank
OrderLines ==
    { <<"a", "b", "c">>,
      <<"a", "b">>,
      <<"1", "2", "yen">>,
      <<" ", "x", "y", "3">>,
      <<"su", "ryo", ":", "2">>,
      <<"tan", "ka", " ", "1", ",", "5">>,
      <<",">>,
      <<" ">> }

RECURSIVE JoinLines(_)
\* the text whose lines these are
JoinLines(lines) ==
    IF lines = <<>> THEN <<>>
    ELSE IF Len(lines) = 1 THEN lines[1]
    ELSE lines[1] \o <<"\n">> \o JoinLines(Tail(lines))

ItemTexts == {JoinLines(lines) : lines \in SeqsUpTo(OrderLines, MaxLen)}

\* the items extract_items may have produced, and one with every field
OrderItems ==
    { [amount |-> <<"1", "2">>],
      [product_name |-> <<"a", "b", "c">>],
      [quantity |-> <<"2">>, unit_price |-> <<"1", "5">>,
       amount |-> <<"3">>, product_name |-> <<"x", "y", "3">>] }

\* the records extract_order_data builds
OrderRecords ==
    [date : {<<>>, <<"2", "0", "2", "4", "-", "0", "1", "-", "0", "5">>},
     customer_name : {<<>>, <<"c">>},
     items : SeqsUpTo(OrderItems, MaxLen),
     filename : {<<"f">>},
     processed_at : {<<"t">>}]

InitExtract ==
    /\ extract \in
          {[op |-> "date", state |-> "called", text |-> text,
            result |-> [found |-> FALSE, date |-> <<>>]] : text \in DateTexts}
            \cup
          {[op |-> "items", state |-> "scanning", text |-> text,
            lines |-> Split(text), next |-> 1, current_item |-> EmptyItem,
            items |-> <<>>] : text \in ItemTexts}
            \cup
          {[op |-> "format", state |-> "called", order_data |-> order_data,
            rows |-> <<>>] : order_data \in OrderRecords}
    /\ history = EmptyStore
    /\ file = MissingFile
    /\ config = [sheets_client |-> TRUE, check_expiry |-> FALSE]
    /\ now = 0
    /\ pc = "extract"
    /\ page = <<>>
    /\ current = <<>>
    /\ changes = NoChanges
    /\ calls = <<>>
    /\ out = NoOut
    /\ outcome = "none"
    /\ start = [history |-> history, file |-> file]
    /\ fetched = NoFetch
    /\ latestPage = <<>>
    /\ sched = NoSched
    /\ scan = NoScan
    /\ batch = NoBatch
    /\ proc = NoProc
    /\ scraper = NoScraper

\* extractor.extract_date(text), on a platform of either kind
ExtractDate ==
    /\ extract.op = "date"
    /\ extract.state = "called"
    /\ \E pads_year \in BOOLEAN :
          extract' = [extract EXCEPT
                        !.state = "returned",
                        !.result = extract_date(extract.text, pads_year)]
    /\ UNCHANGED <<history, file, config, now, pc, page, current, changes,
                   calls, out, outcome, start, fetched, latestPage, sched,
                   scan, batch, proc, scraper>>

\* extract_items: the loop takes the next line
ExtractItemsLine ==
    /\ extract.op = "items"
    /\ extract.state = "scanning"
    /\ extract.next <= Len(extract.lines)
    /\ extract' = [extract EXCEPT
                     !.current_item = ItemsLine(extract.current_item,
                                                extract.lines[extract.next]),
                     !.next = extract.next + 1]
    /\ UNCHANGED <<history, file, config, now, pc, page, current, changes,
                   calls, out, outcome, start, fetched, latestPage, sched,
                   scan, batch, proc, scraper>>

\* extract_items: after the last line the item, if it has any field, is the
\* one element of the result
ExtractItemsReturn ==
    /\ extract.op = "items"
    /\ extract.state = "scanning"
    /\ extract.next > Len(extract.lines)
    /\ extract' = [extract EXCEPT
                     !.state = "returned",
                     !.items = IF extract.current_item # EmptyItem
                               THEN <<extract.current_item>> ELSE <<>>]
    /\ UNCHANGED <<history, file, config, now, pc, page, current, changes,
                   calls, out, outcome, start, fetched, latestPage, sched,
                   scan, batch, proc, scraper>>

\* extractor.format_for_sheets(order_data)
FormatForSheets ==
    /\ extract.op = "format"
    /\ extract.state = "called"
    /\ extract' = [extract EXCEPT
                     !.state = "returned",
                     !.rows = format_for_sheets(extract.order_data)]
    /\ UNCHANGED <<history, file, config, now, pc, page, current, changes,
                   calls, out, outcome, start, fetched, latestPage, sched,
                   scan, batch, proc, scraper>>

NextExtract ==
    \/ ExtractDate
    \/ ExtractItemsLine
    \/ ExtractItemsReturn
    \/ FormatForSheets

SpecExtract == InitExtract /\ [][NextExtract]_vars


(***************************************************************************)
(* Startup: main() of the inventory monitor and main() of the order        *)
(* processor, from the environment to the first cycle or the first file.   *)
(***************************************************************************)
\* the environment of a process: which program, WAREHOUSE_INVENTORY_URL and
\* GOOGLE_SHEETS_ID set or not, a valid token.json stored or not,
\* credentials.json present or not, --no-expiry-check given or not
Environments ==
    [program : {"monitor", "orders"}, state : {"main"}, url : BOOLEAN,
     spreadsheet_id : BOOLEAN, token : BOOLEAN, credentials_file : BOOLEAN,
     no_expiry_check : BOOLEAN, exit_code : {0}, traceback : {FALSE}]

\* GoogleSheetsClient.__init__ with every credentials file taken as present
SheetsClientInitLenient(p) == "ok"

\* GoogleSheetsClient.__init__, that is _authenticate: a valid token is used;
\* without one the credentials file is needed, and its absence raises
SheetsClientInit(p) ==
    IF p.token THEN "ok"
    ELSE IF ~p.credentials_file THEN "FileNotFoundError"
    ELSE "ok"

\* sys.exit(code), or the end of the process by an exception nothing catches
Exit(p, code, traceback) ==
    [p EXCEPT !.state = "exited", !.exit_code = code, !.traceback = traceback]

\* MonitorMain without the check of WAREHOUSE_INVENTORY_URL
MonitorMainNoUrlCheck ==
    /\ proc.program = "monitor"
    /\ proc.state = "main"
    /\ proc' = [proc EXCEPT !.state = "running"]
    /\ config' = [sheets_client |-> /\ proc.spreadsheet_id
                                    /\ SheetsClientInit(proc) = "ok",
                  check_expiry  |-> ~proc.no_expiry_check]
    /\ history' = _load_history(file)
    /\ start' = [history |-> history', file |-> file]
    /\ pc' = "idle"
    /\ UNCHANGED <<file, now, page, current, changes, calls, out, outcome,
                   fetched, latestPage, sched, scan, batch, scraper, extract>>

\* main() of inventory_monitor_main.py up to its first cycle: exit 1 without
\* the URL; the sheets client is optional and its failure only logged; the
\* monitor is constructed, which loads the store
MonitorMain ==
    /\ proc.program = "monitor"
    /\ proc.state = "main"
    /\ IF ~proc.url
       THEN /\ proc' = Exit(proc, 1, FALSE)
            /\ UNCHANGED <<history, config, pc, start>>
       ELSE /\ proc' = [proc EXCEPT !.state = "running"]
            /\ config' = [sheets_client |-> /\ proc.spreadsheet_id
                                            /\ SheetsClientInit(proc) = "ok",
                          check_expiry  |-> ~proc.no_expiry_check]
            /\ history' = _load_history(file)
            /\ start' = [history |-> history', file |-> file]
            /\ pc' = "idle"
    /\ UNCHANGED <<file, now, page, current, changes, calls, out, outcome,
                   fetched, latestPage, sched, scan, batch, scraper, extract>>

\* main() of main.py up to its loop: exit 1 without GOOGLE_SHEETS_ID; the
\* sheets client is constructed outside any try, so its exception ends the
\* process; then files_to_process is built
OrdersMain ==
    /\ proc.program = "orders"
    /\ proc.state = "main"
    /\ IF ~proc.spreadsheet_id
       THEN /\ proc' = Exit(proc, 1, FALSE)
            /\ UNCHANGED <<batch, pc>>
       ELSE IF SheetsClientInit(proc) # "ok"
       THEN /\ proc' = Exit(proc, 1, TRUE)
            /\ UNCHANGED <<batch, pc>>
       ELSE /\ proc' = [proc EXCEPT !.state = "running"]
            /\ batch' \in Batches
            /\ pc' = "orders"
    /\ UNCHANGED <<history, file, config, now, page, current, changes, calls,
                   out, outcome, start, fetched, latestPage, sched, scan,
                   scraper, extract>>

\* a process is started; the monitor finds the backing file an earlier run
\* left, if any, and has time for one cycle
InitStart ==
    /\ proc \in Environments
    /\ \E p \in Pages :
          /\ latestPage = p
          /\ file \in (IF p = <<>>
                       THEN {MissingFile, CorruptFile}
                       ELSE {FileOf(HistoryPut(EmptyStore,
                                               scrape_inventory(p, 0), 0))})
    /\ proc.program = "orders" => file = MissingFile
    /\ history = EmptyStore
    /\ config = [sheets_client |-> FALSE, check_expiry |-> FALSE]
    /\ now = MaxClock - 1
    /\ pc = "main"
    /\ page = <<>>
    /\ current = <<>>
    /\ changes = NoChanges
    /\ calls = <<>>
    /\ out = NoOut
    /\ outcome = "none"
    /\ start = [history |-> history, file |-> file]
    /\ fetched = NoFetch
    /\ sched = NoSched
    /\ scan = NoScan
    /\ batch = NoBatch
    /\ scraper = NoScraper
    /\ extract = NoExtract

NextStart ==
    \/ MonitorMain
    \/ OrdersMain
    \/ FetchRaises /\ UNCHANGED <<sched, scan, batch, proc, scraper, extract>>
    \/ FetchReturns /\ UNCHANGED <<sched, scan, batch, proc, scraper, extract>>
    \/ Compare /\ UNCHANGED <<sched, scan, batch, proc, scraper, extract>>
    \/ NotifyShipment
          /\ UNCHANGED <<sched, scan, batch, proc, scraper, extract>>
    \/ Persist /\ UNCHANGED <<sched, scan, batch, proc, scraper, extract>>
    \/ ExpiryCheck /\ UNCHANGED <<sched, scan, batch, proc, scraper, extract>>
    \/ NothingToProcess
    \/ ProcessNext

SpecStart == InitStart /\ [][NextStart]_vars


(***************************************************************************)
(* One fetch: InventoryMonitor.get_current_inventory, from the WebScraper   *)
(* it constructs to the close() of its finally clause.                     *)
(***************************************************************************)
\* WebScraper.__init__: neither a driver nor a session yet
WebScraper(use_selenium, headless) ==
    [use_selenium |-> use_selenium, headless |-> headless,
     driver |-> FALSE, session |-> FALSE,
     closes |-> 0, quits |-> 0, session_closes |-> 0]

\* WebScraper._init_selenium, when webdriver.Chrome returns
_init_selenium(w) == [w EXCEPT !.driver = TRUE]

\* WebScraper._init_requests
_init_requests(w) == [w EXCEPT !.session = TRUE]

\* WebScraper.close: quit and forget the driver if there is one, close and
\* forget the session if there is one
close(w) ==
    [w EXCEPT !.closes = @ + 1,
              !.quits = IF w.driver THEN @ + 1 ELSE @,
              !.driver = FALSE,
              !.session_closes = IF w.session THEN @ + 1 ELSE @,
              !.session = FALSE]

\* Leave with close() in an except clause: a returned listing skips it
LeaveOnErrorOnly(s, w, result) ==
    [s EXCEPT !.state = IF result = "returned" THEN "done" ELSE "finally",
              !.web = w, !.result = result]

\* control leaves the try block of get_current_inventory, by return or by
\* an exception: the finally clause is next either way
Leave(s, w, result) ==
    [s EXCEPT !.state = "finally", !.web = w, !.result = result]

InitFetch ==
    /\ scraper = NoScraper
    /\ now \in 0..MaxClock
    /\ pc = "fetch"
    /\ history = EmptyStore
    /\ file = MissingFile
    /\ config = [sheets_client |-> FALSE, check_expiry |-> FALSE]
    /\ page = <<>>
    /\ current = <<>>
    /\ changes = NoChanges
    /\ calls = <<>>
    /\ out = NoOut
    /\ outcome = "none"
    /\ start = [history |-> history, file |-> file]
    /\ fetched = NoFetch
    /\ latestPage = <<>>
    /\ sched = NoSched
    /\ scan = NoScan
    /\ batch = NoBatch
    /\ proc = NoProc
    /\ extract = NoExtract

\* get_current_inventory up to its try: USE_SELENIUM and HEADLESS_MODE are
\* read and the WebScraper is constructed; login_url is given or not, and a
\* user name and a password are known or not
GetCurrentInventory ==
    /\ pc = "fetch"
    /\ scraper.state = "none"
    /\ \E use_selenium, headless, login_url, credentials \in BOOLEAN :
          scraper' = [state       |-> "try",
                      web         |-> WebScraper(use_selenium, headless),
                      login_url   |-> login_url,
                      credentials |-> credentials,
                      result      |-> "none"]
    /\ UNCHANGED <<history, file, config, now, pc, page, current, changes,
                   calls, out, outcome, start, fetched, latestPage, sched,
                   scan, batch, proc, extract>>

\* if login_url: self.scraper.login(...).  Without a user name or a password
\* login returns at once; otherwise the driver or the session is made, and
\* the page load or the form may raise
Login ==
    /\ scraper.state = "try"
    /\ IF ~scraper.login_url \/ ~scraper.credentials
       THEN scraper' = [scraper EXCEPT !.state = "scrape"]
       ELSE IF scraper.web.use_selenium
       THEN \E step \in {"init_raises", "raises", "returns"} :
               scraper' =
                  CASE step = "init_raises" ->
                          Leave(scraper, scraper.web, "login_raised")
                    [] step = "raises" ->
                          Leave(scraper, _init_selenium(scraper.web),
                                "login_raised")
                    [] step = "returns" ->
                          [scraper EXCEPT !.state = "scrape",
                                          !.web = _init_selenium(@)]
       ELSE \E step \in {"raises", "returns"} :
               scraper' =
                  CASE step = "raises" ->
                          Leave(scraper, _init_requests(scraper.web),
                                "login_raised")
                    [] step = "returns" ->
                          [scraper EXCEPT !.state = "scrape",
                                          !.web = _init_requests(@)]
    /\ UNCHANGED <<history, file, config, now, pc, page, current, changes,
                   calls, out, outcome, start, fetched, latestPage, sched,
                   scan, batch, proc, extract>>

\* inventory = self.scraper.scrape_inventory(url, ...); return inventory.
\* The driver or the session is made if login did not make it; the page of
\* the site is read, or an error is logged and raised again
ScrapeInventory ==
    /\ scraper.state = "scrape"
    /\ \/ /\ scraper.web.use_selenium
          /\ ~scraper.web.driver
          /\ scraper' = Leave(scraper, scraper.web, "scrape_raised")
          /\ UNCHANGED <<page, current>>
       \/ /\ LET w == IF scraper.web.use_selenium
                      THEN _init_selenium(scraper.web)
                      ELSE _init_requests(scraper.web)
             IN  \/ /\ scraper' = Leave(scraper, w, "scrape_raised")
                    /\ UNCHANGED <<page, current>>
                 \/ \E p \in Pages :
                       /\ page' = p
                       /\ current' = scrape_inventory(p, now)
                       /\ scraper' = Leave(scraper, w, "returned")
    /\ UNCHANGED <<history, file, config, now, pc, changes, calls, out,
                   outcome, start, fetched, latestPage, sched, scan, batch,
                   proc, extract>>

\* finally: if self.scraper: self.scraper.close()
Finally ==
    /\ scraper.state = "finally"
    /\ scraper' = [scraper EXCEPT !.state = "done", !.web = close(@)]
    /\ pc' = "fetched"
    /\ UNCHANGED <<history, file, config, now, page, current, changes, calls,
                   out, outcome, start, fetched, latestPage, sched, scan,
                   batch, proc, extract>>

NextFetch ==
    \/ GetCurrentInventory
    \/ Login
    \/ ScrapeInventory
    \/ Finally

SpecFetch == InitFetch /\ [][NextFetch]_vars


(***************************************************************************)
(* Properties.                                                             *)
(***************************************************************************)
\* the stored previous snapshot
Latest == HistoryGet(history, "latest")

\* the product names of a listing or of a list of events
NamesOf(items) == {items[i].product : i \in 1..Len(items)}

\* the last item of a listing that carries the name
LastItem(listing, name) ==
    listing[CHOOSE i \in 1..Len(listing) :
               /\ listing[i].product = name
               /\ \A j \in (i + 1)..Len(listing) : listing[j].product # name]

\* the positions of the events of a list that carry the name
EventsFor(events, name) == {i \in 1..Len(events) : events[i].product = name}

\* the positions of a call in the calls of the cycle
CallsOf(name) == {i \in 1..Len(calls) : calls[i] = name}

\* the place of each call in a cycle
Rank(call) ==
    CASE call = "get_current_inventory" -> 1
      [] call = "compare_inventory" -> 2
      [] call = "notify_shipment" -> 3
      [] call = "save_changes_to_sheets" -> 4
      [] call = "save_inventory_snapshot" -> 5
      [] call = "get_expiring_soon_products" -> 6
      [] call = "notify_expiring_soon" -> 7

\* C1: a cycle whose fetch raised leaves the store as it was when the cycle
\* started, in memory and in the backing file, `latest` and
\* `latest_timestamp` included.
C1_FailedFetchKeepsStore ==
    (pc = "idle" /\ outcome = "aborted") =>
        /\ history = start.history
        /\ file = start.file
        /\ calls = <<"get_current_inventory">>

\* a failed fetch with a snapshot in the store
C1_Witness ==
    /\ pc = "idle"
    /\ outcome = "aborted"
    /\ Latest # <<>>
    /\ history["latest_timestamp"] < now
    /\ file = FileOf(history)

\* C2 as claimed: between cycles `latest` is the listing of the most recent
\* fetch that returned without raising.
C2_LatestIsLastReturned ==
    (pc = "idle" /\ fetched.returned) => Latest = fetched.last

\* C2: between cycles the `latest` of the store in memory is the listing of
\* the most recent fetch that returned a listing with at least one item,
\* whatever the notification, the sheet writes and the file write did.
C2_LatestIsLastNonEmpty ==
    (pc = "idle" /\ fetched.nonempty) =>
        /\ "latest" \in DOMAIN history
        /\ history["latest"] = fetched.last_nonempty

\* a completed cycle whose email failed and whose file write failed, and
\* whose listing is nevertheless `latest`
C2_Witness ==
    /\ pc = "idle"
    /\ outcome = "done"
    /\ out.email = "failed"
    /\ file # FileOf(history)
    /\ Latest = fetched.last_nonempty
    /\ Latest # HistoryGet(start.history, "latest")

\* C3: a listing compared with a stored snapshot equal to it gives no
\* changes, no new products and no removed products.
C3_DiffSelfEmpty ==
    (pc = "compared" /\ current = Latest) =>
        /\ changes.changes = <<>>
        /\ changes.new_products = <<>>
        /\ changes.removed_products = <<>>

\* a listing of two items compared with itself
C3_Witness ==
    /\ pc = "compared"
    /\ current = Latest
    /\ Len(current) >= 2
    /\ changes.changes = <<>>

\* C4: against an empty previous snapshot every product of the current
\* listing is new, once, and nothing is changed or removed; an empty
\* current listing makes every product of the snapshot removed, once, and
\* nothing is changed or new.
C4_EmptySide ==
    pc = "compared" =>
        /\ Latest = <<>> =>
              /\ changes.changes = <<>>
              /\ changes.removed_products = <<>>
              /\ NamesOf(changes.new_products) = NamesOf(current)
              /\ Len(changes.new_products) = Cardinality(NamesOf(current))
        /\ current = <<>> =>
              /\ changes.changes = <<>>
              /\ changes.new_products = <<>>
              /\ NamesOf(changes.removed_products) = NamesOf(Latest)
              /\ Len(changes.removed_products) = Cardinality(NamesOf(Latest))

\* two products compared with an empty snapshot, one of them out of stock
C4_Witness ==
    /\ pc = "compared"
    /\ Latest = <<>>
    /\ Len(changes.new_products) = 2
    /\ \E i \in 1..Len(current) : current[i].quantity = 0

\* C5: a product in both listings has a change record iff its quantity
\* differs or its expiry text differs; the record is a shipment with
\* shipped_quantity = |quantity_diff| when the quantity fell, and an
\* increase otherwise, also when only the expiry changed.
C5_Classification ==
    pc = "compared" =>
        \A name \in NamesOf(current) \cap NamesOf(Latest) :
            LET cur == LastItem(current, name)
                prev == LastItem(Latest, name)
                diff == cur.quantity - prev.quantity
                expiry == cur.expiry_date # prev.expiry_date
                recs == EventsFor(changes.changes, name)
            IN  /\ (recs # {}) <=> (diff # 0 \/ expiry)
                /\ \A i \in recs :
                      LET r == changes.changes[i]
                      IN  /\ r.quantity_diff = diff
                          /\ r.expiry_changed = expiry
                          /\ diff < 0 => /\ r.type = "shipment"
                                         /\ r.shipped_quantity = Abs(diff)
                          /\ diff >= 0 => r.type = "increase"

\* a shipment of one product and an expiry-only change of the other
C5_Witness ==
    /\ pc = "compared"
    /\ Len(changes.changes) = 2
    /\ \E i, j \in 1..2 :
          /\ changes.changes[i].type = "shipment"
          /\ changes.changes[i].shipped_quantity = 1
          /\ changes.changes[j].type = "increase"
          /\ changes.changes[j].quantity_diff = 0
          /\ changes.changes[j].expiry_changed

\* C6 as claimed: every change record carries a nonzero quantity_diff equal
\* to current_quantity - previous_quantity.
C6_QuantityDiffNonzero ==
    pc = "compared" =>
        \A i \in 1..Len(changes.changes) :
            LET r == changes.changes[i]
            IN  /\ r.quantity_diff = r.current_quantity - r.previous_quantity
                /\ r.quantity_diff # 0

\* C6: every change record carries quantity_diff = current_quantity -
\* previous_quantity, and quantity_diff is nonzero unless the record's
\* expiry_changed is true.
C6_QuantityDiffOrExpiry ==
    pc = "compared" =>
        \A i \in 1..Len(changes.changes) :
            LET r == changes.changes[i]
            IN  /\ r.quantity_diff = r.current_quantity - r.previous_quantity
                /\ r.quantity_diff # 0 \/ r.expiry_changed

\* a record whose quantity_diff is 0 beside one whose quantity_diff is not
C6_Witness ==
    /\ pc = "compared"
    /\ \E i, j \in 1..Len(changes.changes) :
          /\ changes.changes[i].quantity_diff = 0
          /\ changes.changes[j].quantity_diff > 0

C8_LastWins ==
    pc = "compared" =>
        \A name \in NamesOf(current) \cup NamesOf(Latest) :
            LET ch == EventsFor(changes.changes, name)
                nw == EventsFor(changes.new_products, name)
                rm == EventsFor(changes.removed_products, name)
            IN  /\ Cardinality(ch) + Cardinality(nw) + Cardinality(rm) <= 1
                /\ \A i \in ch :
                      LET r == changes.changes[i]
                          cur == LastItem(current, name)
                          prev == LastItem(Latest, name)
                      IN  /\ r.current_quantity = cur.quantity
                          /\ r.current_expiry = cur.expiry_date
                          /\ r.previous_quantity = prev.quantity
                          /\ r.previous_expiry = prev.expiry_date
                /\ \A i \in nw :
                      LET r == changes.new_products[i]
                          cur == LastItem(current, name)
                      IN  /\ r.quantity = cur.quantity
                          /\ r.expiry_date = cur.expiry_date
                /\ \A i \in rm :
                      changes.removed_products[i].previous_quantity =
                          LastItem(Latest, name).quantity
                /\ (/\ name \in NamesOf(current) \cap NamesOf(Latest)
                    /\ LastItem(current, name) = LastItem(Latest, name))
                      => ch = {}

\* a name twice in the current and twice in the previous listing, with
\* different quantities each time, and one change record for it
C8_Witness ==
    /\ pc = "compared"
    /\ Len(current) = 2
    /\ current[1].product = current[2].product
    /\ current[1].quantity # current[2].quantity
    /\ Len(Latest) = 2
    /\ Latest[1].product = Latest[2].product
    /\ Latest[1].quantity # Latest[2].quantity
    /\ Len(changes.changes) = 1

C10_EmptyListingEndsCycle ==
    outcome = "empty" =>
        /\ pc = "idle"
        /\ calls = <<"get_current_inventory">>
        /\ changes = NoChanges
        /\ history = start.history
        /\ file = start.file
        /\ out = NoOut

\* an empty listing fetched while the store holds a snapshot with products
C10_Witness ==
    /\ outcome = "empty"
    /\ current = <<>>
    /\ fetched.last = <<>>
    /\ Latest # <<>>
    /\ file = FileOf(history)


\* C11: a fetch error does not end the loop of run_scheduled_monitoring:
\* unless an interrupt or a crash ends the process, a cycle whose fetch
\* raised is followed by the next trigger, and every trigger by a cycle.
C11_LoopSurvivesFetchError ==
    /\ (outcome = "aborted" /\ now < MaxClock /\ sched.state = "cycle")
          ~> (sched.state = "due"
                 \/ sched.state \in {"stopped", "killed", "crashed"})
    /\ (sched.state = "due")
          ~> (sched.state = "cycle"
                 \/ sched.state \in {"stopped", "killed", "crashed"})

\* a scheduled cycle running after a cycle whose fetch raised
C11_Witness ==
    /\ sched.state = "cycle"
    /\ sched.scheduled
    /\ sched.aborted
    /\ pc = "persist"

\* C12 as claimed: an interrupt never stops the process in the middle of a
\* cycle, in particular not between the notification and the snapshot save.
C12_InterruptOnlyBetweenCycles ==
    sched.state \in {"stopped", "killed"} => pc = "idle"

\* C13 as claimed: after a crash in _save_history the file holds the complete
\* store of before or the complete new store.
C13_CrashKeepsDurableStore ==
    (sched.state = "crashed" /\ start.file.state = "ok") =>
        \/ file = start.file
        \/ file = FileOf(HistoryPut(history, current, now))


\* C14: with the backing file missing or malformed the monitor is constructed
\* with an empty store; the next cycle that completes reports every fetched
\* product as new, no change and no removal, and leaves a store whose `latest`
\* is the listing of that cycle, which the file holds when its write went well.
C14_EmptyStoreRecovers ==
    /\ (now = 0 /\ file.state \in {"missing", "corrupt"}) =>
           (history = EmptyStore /\ pc = "idle" /\ outcome = "none")
    /\ (start.history = EmptyStore /\ outcome = "done" /\ pc = "idle") =>
           /\ changes.changes = <<>>
           /\ changes.removed_products = <<>>
           /\ NamesOf(changes.new_products) = NamesOf(current)
           /\ Len(changes.new_products) = Cardinality(NamesOf(current))
           /\ "latest" \in DOMAIN history
           /\ Latest = current
           /\ out.file_write = "ok" =>
                  (file.state = "ok" /\ _load_history(file) = history)

\* a completed cycle that started from a malformed file, fetched two products
\* and wrote the file
C14_Witness ==
    /\ start.file.state = "corrupt"
    /\ start.history = EmptyStore
    /\ outcome = "done"
    /\ pc = "idle"
    /\ Cardinality(NamesOf(current)) = 2
    /\ out.file_write = "ok"


\* C18: a failed send of the shipment email or of the expiry email never
\* aborts the cycle: the report is still printed, and the cycle goes on to
\* save its snapshot and to run the expiry check.
C18_EmailFailureKeepsCycle ==
    /\ out.email = "failed" =>
           /\ out.shipment_notified
           /\ outcome \in {"running", "done"}
           /\ pc \in {"persist", "expiry", "idle"}
    /\ (out.email = "failed" /\ pc = "idle") =>
           /\ outcome = "done"
           /\ CallsOf("save_inventory_snapshot") # {}
           /\ Latest = current
           /\ config.check_expiry =>
                  CallsOf("get_expiring_soon_products") # {}
    /\ out.expiry_email = "failed" =>
           /\ out.expiry_notified
           /\ outcome = "done"
           /\ CallsOf("save_inventory_snapshot") # {}
           /\ Latest = current

\* a completed cycle in which both sends failed
C18_Witness ==
    /\ out.email = "failed"
    /\ out.expiry_email = "failed"
    /\ outcome = "done"
    /\ pc = "idle"


\* the item as the scan returns it when it keeps it
Stamped(item, t) ==
    [k \in (DOMAIN item) \cup {"days_until_expiry"} |->
        IF k = "days_until_expiry"
        THEN TimedeltaDays(strptime(item.expiry_date) - t)
        ELSE item[k]]

\* the scan has returned and the item is in its result
Kept(item) ==
    \E j \in 1..Len(scan.result) : scan.result[j] = Stamped(item, now)

\* C15 as claimed: at any time of day, an item with a date is kept exactly
\* when the days_until_expiry reported for it is at most the horizon, the
\* expired ones with negative values included.
C15_KeptIffWithinHorizon ==
    scan.state = "returned" =>
        \A i \in 1..Len(current) :
            ParseOutcome(current[i]) = "ok" =>
                (Kept(current[i])
                    <=> Stamped(current[i], now).days_until_expiry <= scan.days)

\* C16: the scan never raises for an item whose expiry_date is no ISO date or
\* is absent; such an item is in no result, and the items with a date are kept
\* or dropped as if it were not in the listing.
C16_UnparseableSkipped ==
    pc = "scanned" =>
        /\ scan.state = "returned"
        /\ \A j \in 1..Len(scan.result) :
              ParseOutcome(scan.result[j]) = "ok"
        /\ \A i \in 1..Len(current) :
              (/\ ParseOutcome(current[i]) = "ok"
               /\ strptime(current[i].expiry_date)
                     <= now + scan.days * DayTicks)
                  => Kept(current[i])

\* a listing that begins with an item without the key or with a text that is
\* no date, and whose dated last item is kept
C16_Witness ==
    /\ pc = "scanned"
    /\ Len(current) >= 2
    /\ ParseOutcome(current[1]) \in {"KeyError", "ValueError"}
    /\ ParseOutcome(current[Len(current)]) = "ok"
    /\ Len(scan.result) = 1

\* C17: the result is in ascending order of days_until_expiry, and each of
\* its elements carries the value.
C17_SortedByDays ==
    scan.state = "returned" =>
        /\ \A j \in 1..Len(scan.result) :
              "days_until_expiry" \in DOMAIN scan.result[j]
        /\ \A j, k \in 1..Len(scan.result) :
              j < k => scan.result[j].days_until_expiry
                          <= scan.result[k].days_until_expiry

\* two kept items that the listing had in descending order
C17_Witness ==
    /\ scan.state = "returned"
    /\ Len(scan.result) = 2
    /\ scan.result[1].days_until_expiry < scan.result[2].days_until_expiry
    /\ scan.result[1].expiry_date = current[Len(current)].expiry_date
    /\ scan.result[2].expiry_date = current[1].expiry_date


\* C19 as claimed: a file is moved to the processed folder exactly when its
\* processing succeeded, in the scan of the input folder and with --file.
C19_MovedIffProcessed ==
    batch.state \in {"running", "finished"} =>
        \A i \in 1..Len(batch.results) :
            batch.results[i].moved <=> batch.results[i].returned

\* the reasons for which the processing of a file fails
Failures == {"OcrError", "ValueError", "empty_text", "HttpError"}

\* C20: a failure on one file abandons that file only: process_file returns
\* False, nothing leaves it, nothing of the file is appended or moved, and
\* the loop goes on to every remaining file, which is processed on its own
\* merits.
C20_FailureAbandonsOneFile ==
    /\ batch.state \in {"running", "finished"}
    /\ batch.state = "finished" => Len(batch.results) = Len(batch.files)
    /\ batch.state = "running" =>
           (Len(batch.results) < Len(batch.files) \/ batch.files = <<>>)
    /\ \A i \in 1..Len(batch.results) :
          LET f == batch.files[i]
              r == batch.results[i]
          IN  /\ (\/ f.ext \notin Supported
                  \/ f.ocr.raised # "none"
                  \/ Strip(f.ocr.text) = <<>>)
                    => (~r.returned /\ r.why \in Failures)
              /\ r.why \in Failures =>
                    (~r.returned /\ ~r.appended /\ ~r.moved)
              /\ r.returned <=> r.why = "none"

\* a batch whose first file failed in the OCR and whose second was appended
C20_Witness ==
    /\ batch.state = "finished"
    /\ Len(batch.files) >= 2
    /\ batch.results[1].why = "OcrError"
    /\ batch.results[Len(batch.files)].returned


\* C21: without WAREHOUSE_INVENTORY_URL the inventory monitor, and without
\* GOOGLE_SHEETS_ID the order processor, exits with code 1 before any cycle,
\* any fetch or any file.
C21_MissingConfigExits ==
    /\ (proc.program = "monitor" /\ ~proc.url /\ proc.state # "main") =>
           /\ proc.state = "exited"
           /\ proc.exit_code = 1
           /\ pc = "main"
           /\ calls = <<>>
           /\ fetched = NoFetch
           /\ outcome = "none"
           /\ file = start.file
    /\ (proc.program = "orders" /\ ~proc.spreadsheet_id
           /\ proc.state # "main") =>
           /\ proc.state = "exited"
           /\ proc.exit_code = 1
           /\ batch = NoBatch

\* the monitor started without the URL, after main()
C21_Witness ==
    /\ proc.program = "monitor"
    /\ ~proc.url
    /\ proc.state = "exited"
    /\ proc.exit_code = 1

\* no cycle has begun and no file has been taken up
NothingRan ==
    /\ calls = <<>>
    /\ fetched = NoFetch
    /\ outcome = "none"
    /\ batch = NoBatch

C23_RowsPerItem ==
    (extract.op = "format" /\ extract.state = "returned") =>
        LET order_data == extract.order_data
            rows == extract.rows
            n == Len(order_data.items)
        IN  /\ n = 0 =>
                  /\ Len(rows) = 1
                  /\ \A c \in 3..6 : rows[1][c] = <<>>
            /\ n >= 1 =>
                  /\ Len(rows) = n
                  /\ \A i \in 1..n :
                        /\ rows[i][3] = GetOr(order_data.items[i],
                                              "product_name")
                        /\ rows[i][4] = GetOr(order_data.items[i], "quantity")
                        /\ rows[i][5] = GetOr(order_data.items[i],
                                              "unit_price")
                        /\ rows[i][6] = GetOr(order_data.items[i], "amount")
            /\ \A i \in 1..Len(rows) :
                  /\ Len(rows[i]) = 9
                  /\ rows[i][1] = order_data.date
                  /\ rows[i][2] = order_data.customer_name
                  /\ rows[i][7] = <<>>
                  /\ rows[i][8] = order_data.processed_at
                  /\ rows[i][9] = order_data.filename

\* two different items formatted, of a record with a date and a customer
C23_Witness ==
    /\ extract.op = "format"
    /\ extract.state = "returned"
    /\ Len(extract.rows) = 2
    /\ extract.rows[1][3] # extract.rows[2][3]
    /\ extract.rows[1][1] # <<>>
    /\ extract.rows[2][2] # <<>>

\* the lines of the text that have an amount, and those that can be a name
AmountLines(lines) ==
    {i \in 1..Len(lines) : FirstAmount(Strip(lines[i])).matched}
NameLines(lines) ==
    {i \in 1..Len(lines) :
        ~NumbersOnly(Strip(lines[i])) /\ Len(Strip(lines[i])) > 2}
First(positions) == CHOOSE i \in positions : \A j \in positions : i <= j

\* C24: extract_items returns at most one item; its amount and its product
\* name come from the first line that has one, and once set no later line
\* changes them.
C24_OneItemFirstClaims ==
    /\ [](extract.op = "items" =>
            /\ Len(extract.items) <= 1
            /\ extract.state = "returned" =>
                  LET lines == extract.lines
                      item == IF extract.items = <<>> THEN EmptyItem
                              ELSE extract.items[1]
                  IN  /\ "amount" \in DOMAIN item
                            <=> AmountLines(lines) # {}
                      /\ AmountLines(lines) # {} =>
                            item.amount =
                               Without(Without(
                                  FirstAmount(Strip(
                                     lines[First(AmountLines(lines))])).text,
                                  ","), "yen")
                      /\ "product_name" \in DOMAIN item
                            <=> NameLines(lines) # {}
                      /\ NameLines(lines) # {} =>
                            item.product_name =
                               Strip(lines[First(NameLines(lines))]))
    /\ [][extract.op = "items" =>
            \A key \in {"amount", "product_name"} :
                key \in DOMAIN extract.current_item =>
                    /\ key \in DOMAIN extract'.current_item
                    /\ extract'.current_item[key]
                          = extract.current_item[key]]_vars

\* a text of two lines with different amounts and different names: the item
\* returned has the amount and the name of the first
C24_Witness ==
    /\ extract.op = "items"
    /\ extract.state = "returned"
    /\ Len(extract.lines) = 2
    /\ AmountLines(extract.lines) = {1, 2}
    /\ NameLines(extract.lines) = {1, 2}
    /\ extract.lines[1] # extract.lines[2]
    /\ Len(extract.items) = 1
    /\ extract.items[1].product_name = Strip(extract.lines[1])
    /\ extract.items[1].amount
          # Without(FirstAmount(Strip(extract.lines[2])).text, "yen")

\* C25 as claimed: extract_date returns the YYYY-MM-DD text of the first
\* pattern, in the fixed order, whose match is a valid date, two-digit years
\* up to 30 being 20yy and the others 19yy; it returns nothing when no
\* pattern gives a valid date.
C25_FirstValidPattern ==
    (extract.op = "date" /\ extract.state = "returned") =>
        LET yielding == Yielding(extract.text)
        IN  IF yielding = {} THEN ~extract.result.found
            ELSE LET found == Search(extract.text,
                                     date_patterns[First(yielding)])
                     year == IF Len(found.year) = 2
                             THEN IF IntOf(found.year) <= 30
                                  THEN 2000 + IntOf(found.year)
                                  ELSE 1900 + IntOf(found.year)
                             ELSE IntOf(found.year)
                 IN  /\ extract.result.found
                     /\ Len(extract.result.date) = 10
                     /\ extract.result.date
                           = Pad4(year) \o <<"-">> \o Pad2(IntOf(found.month))
                                \o <<"-">> \o Pad2(IntOf(found.day))


\* no item of the listing carries the field the expiry scan computes
Unstamped(listing) ==
    \A i \in 1..Len(listing) : "days_until_expiry" \notin DOMAIN listing[i]

\* C26: compare_inventory and get_expiring_soon_products leave the listing
\* they are given and the store as they were, and days_until_expiry is in no
\* listing of the store, in memory or on file.
C26_ListingsNotMutated ==
    /\ [](/\ Unstamped(current)
          /\ Unstamped(Latest)
          /\ Unstamped(HistoryGet(file.store, "latest")))
    /\ [][(pc \in {"compare", "expiry"})
             => (current' = current /\ history' = history /\ file' = file)]_vars

\* a completed cycle whose expiry scan kept products of the listing it saved
C26_Witness ==
    /\ pc = "idle"
    /\ outcome = "done"
    /\ out.expiry_notified
    /\ Latest = current
    /\ file = FileOf(history)


\* what a listing says: its items without the time they were scraped at
Content(listing) ==
    [i \in 1..Len(listing) |->
        [product     |-> listing[i].product,
         quantity    |-> listing[i].quantity,
         expiry_date |-> listing[i].expiry_date]]

\* the cycle under way, or just over, fetched what `latest` said when the
\* cycle began
FetchedSameAsLatest ==
    /\ current # <<>>
    /\ "latest" \in DOMAIN start.history
    /\ Content(current) = Content(start.history["latest"])

\* C27: a cycle that fetches the listing `latest` already holds detects no
\* change, no new product and no removed product, calls neither
\* notify_shipment nor save_changes_to_sheets, and once it has saved its
\* snapshot `latest` still says the same.
C27_SameListingIdempotent ==
    FetchedSameAsLatest =>
        /\ changes.changes = <<>>
        /\ changes.new_products = <<>>
        /\ changes.removed_products = <<>>
        /\ ~out.shipment_notified
        /\ out.email = "none"
        /\ \A i \in 1..Len(calls) :
              calls[i] \notin {"notify_shipment", "save_changes_to_sheets"}
        /\ (pc \in {"expiry", "idle"} =>
               /\ Latest = current
               /\ Content(Latest) = Content(start.history["latest"]))

\* a second completed cycle of this run: it fetched, at a later time, what
\* the cycle before it had saved
C27_Witness ==
    /\ FetchedSameAsLatest
    /\ pc = "idle"
    /\ outcome = "done"
    /\ start.history["latest_timestamp"] > 0
    /\ start.history["latest"] # current
    /\ Len(current) = 2


C29_ScraperReleased ==
    /\ scraper.state \in {"try", "scrape", "finally"} =>
          /\ scraper.web.closes = 0
          /\ scraper.web.quits = 0
          /\ scraper.web.session_closes = 0
    /\ scraper.state = "done" =>
          /\ scraper.result \in {"login_raised", "scrape_raised", "returned"}
          /\ scraper.web.closes = 1
          /\ ~scraper.web.driver
          /\ ~scraper.web.session
          /\ scraper.web.quits + scraper.web.session_closes <= 1
          /\ scraper.web.quits = 1 => scraper.web.use_selenium
          /\ scraper.web.session_closes = 1 => ~scraper.web.use_selenium

\* a fetch over a session that returned a listing with items, and its
\* session closed
C29_Witness ==
    /\ scraper.state = "done"
    /\ scraper.result = "returned"
    /\ current # <<>>
    /\ scraper.web.session_closes = 1
    /\ scraper.web.closes = 1


\* the shipment records of the change-set of the cycle
Shipments == SelectType(changes.changes, "shipment")

Called(name) == \E i \in 1..Len(calls) : calls[i] = name

\* the cycle is past its notification step and has not been cut short
PastNotify ==
    \/ pc \in {"persist", "expiry"}
    \/ pc = "idle" /\ outcome = "done"

\* notify_shipment and save_changes_to_sheets are called iff the change-set
\* has a shipment, and the snapshot is saved whatever the change-set holds
NotifiedIffShipment ==
    PastNotify =>
        /\ Called("notify_shipment") <=> Shipments # <<>>
        /\ Called("save_changes_to_sheets") <=> Shipments # <<>>
        /\ out.shipment_notified <=> Shipments # <<>>
        /\ Shipments = <<>> => (out.email = "none" /\ out.change_rows = 0)
        /\ pc \in {"expiry", "idle"} =>
              /\ Called("save_inventory_snapshot")
              /\ Latest = current

\* C30 as claimed: the notification and the change rows go with a shipment
\* record, and when save_changes_to_sheets is called the change sheet gets
\* one row per record of `changes`.
C30_RowPerChangeWhenCalled ==
    /\ NotifiedIffShipment
    /\ (PastNotify /\ Called("save_changes_to_sheets")) =>
          out.change_rows = Len(changes.changes)

\* C30: notify_shipment and save_changes_to_sheets are called iff the
\* change-set has a shipment record; the change sheet then gets one row per
\* record of `changes`, increases included, or no row at all, and none when
\* the monitor has no sheets client; without a shipment nothing is notified
\* and no change row is written, and the snapshot is saved all the same.
C30_RowPerChangeOrNone ==
    /\ NotifiedIffShipment
    /\ (PastNotify /\ Called("save_changes_to_sheets")) =>
          /\ out.change_rows \in {0, Len(changes.changes)}
          /\ ~config.sheets_client => out.change_rows = 0

\* a completed cycle with a shipment of one product and an increase of the
\* other, both on the change sheet
C30_Witness ==
    /\ pc = "idle"
    /\ outcome = "done"
    /\ Len(Shipments) = 1
    /\ Len(changes.changes) = 2
    /\ out.change_rows = 2
    /\ Latest = current

=============================================================================
